---- MODULE Spec2Model ----
(***************************************************************************)
(* LumaLinkAI: an 8x8 LED matrix controller.                               *)
(*                                                                         *)
(* The repository holds two revisions of the controller:                   *)
(*   "refactored"  main.py + ui.py + serial_utils.py + ai_utils.py         *)
(*   "monolith"    led_matrix_control.py                                   *)
(* The variable revision says which one runs; it never changes.            *)
(*                                                                         *)
(* Parts of the model:                                                     *)
(*   playback   AnimationManager (start / stop / _play)                    *)
(*   link       send_frame / send_single_frame / send_animation over the   *)
(*              serial stream, with the device's acknowledgment lines      *)
(*   parser     parse_response / parse_ai_response_to_numbers on the text  *)
(*              of a reply, a sequence of characters                       *)
(*   generation generate_patterns with its attempts and its fallback       *)
(*   optimize   optimize_with_ai and perform_optimization                   *)
(*   codec      the mirror functions, is_symmetric, the two renderings     *)
(*   edit       the frame lists of the application as objects              *)
(*   preview    the canvas and the callbacks queued by canvas.after        *)
(*   device     MockSerial with send_frame writing to it                   *)
(*   controller LEDMatrixApp: fields, buttons, handlers, worker threads    *)
(***************************************************************************)
EXTENDS Integers, Sequences, FiniteSets, TLC

(***************************************************************************)
(* Bounds of the model.                                                    *)
(***************************************************************************)
MaxLoops == 2        \* _play threads spawned in one run
MaxLines == 1        \* lines the device sends in one run
MaxObjects == 3      \* frame lists created in one run
MaxRounds == 4       \* refinement threads started in one run

(***************************************************************************)
(* Program constants.                                                      *)
(***************************************************************************)
FrameStart == 255    \* 0xFF
FrameEnd   == 254    \* 0xFE
AnimStart  == 250    \* 0xFA
AnimEnd    == 251    \* 0xFB
max_frames == 10     \* send_animation(max_frames=10), MAX_ANIMATION_FRAMES
AckTimeout == 5      \* (time.time() - start) < 5
max_refinement_iterations == 3    \* self.max_refinement_iterations = 3

(***************************************************************************)
(* Sample data.                                                            *)
(***************************************************************************)
Revisions == {"refactored", "monolith"}

\* ai_utils.simple_pattern(): the fallback pattern
simple_pattern_Blank == <<0, 0, 0, 0, 0, 0, 0, 0>>

simple_pattern == <<129, 66, 36, 24, 24, 36, 66, 129>>

PatRamp    == <<1, 2, 3, 4, 5, 6, 7, 8>>
PatMarkers == <<255, 254, 250, 251, 0, 255, 254, 10>>

Pat7       == <<1, 2, 3, 4, 5, 6, 7>>
Pat9       == <<1, 2, 3, 4, 5, 6, 7, 8, 9>>
PatOut     == <<0, 256, 0, 0, 0, 0, 0, 0>>     \* bytes([256]) raises ValueError

Repeat(x, n) == [k \in 1..n |-> x]

\* patterns handed to send_frame / send_single_frame
SamplePatterns == {simple_pattern, PatMarkers, Pat7, Pat9, PatOut}

\* frame lists handed to send_animation
SampleAnimations ==
    { <<>>, <<simple_pattern>>, <<PatRamp, PatMarkers>>, <<Pat7>>, <<PatOut>>,
      Repeat(simple_pattern, max_frames + 1) }

\* the lines a device can send
AckLines == {"Pattern received.", "Animation received."}

\* the threads that send on the stream (perform_save_edited_pattern,
\* generate_single_pattern, refine_pattern_thread, publish_current, ...)
Senders == {"w1", "w2"}

\* frame lists handed to AnimationManager.start
SampleFrames == {<<simple_pattern, PatRamp>>, <<PatMarkers>>}

\* the threads that call into AnimationManager: the Tk main thread
\* (load_selection, exit_app) and a worker thread
\* (generate_animation_patterns, refine_animation_thread)
Callers == {"main", "worker"}

VARIABLES
    revision,    \* which revision of the controller runs
    playing,     \* AnimationManager.playing
    stop_flag,   \* AnimationManager.stop_flag (threading.Event)
    loops,       \* the _play threads: position, frames, index of the for loop
    callers,     \* position of each thread inside AnimationManager.start
    emitted,     \* history: the loops that have passed a frame to canvas.after
    stale,       \* history: an older loop passed a frame after a newer one did
    tkAlive,     \* the Tk main loop runs (canvas.after can be called)
    stopped,     \* history: stop() has set the signal and no start() followed
    sinceStop,   \* history: per loop, frames passed while stopped
    senders,     \* the sending threads: position, arguments, bytes written, log
    inbuf,       \* lines sent by the device and not read yet (ser.readline)
    devLines,    \* number of lines the device has sent
    lastWriter,  \* history: the thread whose ser.write came last
    torn,        \* history: a thread wrote between two writes of another send
    gen,         \* the generate_patterns call: position, arguments, locals, log
    reply,       \* the text handed to the reply parser
    parsed,      \* what the reply parser returned for it
    screen,      \* the preview canvas: callbacks queued by canvas.after, what is drawn
    opt,         \* the perform_optimization call: position, data, locals, log
    ed,          \* the frame lists of the application, by object
    codec,       \* an argument of the mirror / symmetry functions and the result
    mock,        \* the simulated device (MockSerial) and the send_frame call on it
    ctl          \* the controller (LEDMatrixApp): its fields, its worker threads

playVars == <<playing, stop_flag, loops, callers, emitted, stale, tkAlive, stopped, sinceStop, screen>>
linkVars == <<senders, inbuf, devLines, lastWriter, torn>>
aiVars == <<gen, reply, parsed>>
appVars == <<opt, ed, codec>>
ctlVars == <<mock, ctl>>
vars == <<revision, playVars, linkVars, aiVars, appVars, ctlVars>>

LoopIds == 1..MaxLoops

NoLoop == [pc |-> "none", frames |-> <<>>, i |-> 0]

\* nothing queued, nothing drawn
NoScreen == [queued |-> {}, preview |-> "blank", covered |-> {}, overdrawn |-> FALSE]

InitPlayback ==
    /\ playing = FALSE
    /\ stop_flag = FALSE
    /\ loops = [l \in LoopIds |-> NoLoop]
    /\ callers = [c \in Callers |-> [pc |-> "idle", frames |-> <<>>]]
    /\ emitted = {}
    /\ stale = FALSE
    /\ tkAlive = TRUE
    /\ stopped = FALSE
    /\ sinceStop = [l \in LoopIds |-> 0]
    /\ screen = NoScreen

NoSend == [pc |-> "idle", op |-> "none", data |-> <<>>, flat |-> <<>>, i |-> 0,
           written |-> <<>>, log |-> <<>>, ack |-> FALSE, elapsed |-> 0,
           wfail |-> FALSE, previewed |-> FALSE, lateRead |-> FALSE]

InitLink ==
    /\ senders = [t \in Senders |-> NoSend]
    /\ inbuf = <<>>
    /\ devLines = 0
    /\ lastWriter = "none"
    /\ torn = FALSE

MaxAttempts == 3     \* for _ in range(3), while attempts < 3
FrameCount  == 5     \* generate_patterns(..., frame_count=5)

\* what a parser returns: None, or a list of integers
None == [ok |-> FALSE, val |-> <<>>]
Some(v) == [ok |-> TRUE, val |-> v]

NoGen == [pc |-> "idle", animation |-> FALSE, frame_count |-> 0,
          attempts |-> 0, i |-> 0, frames |-> <<>>, result |-> <<>>,
          log |-> {}, calls |-> 0, erred |-> FALSE, got |-> None,
          afterValid |-> FALSE,
          asked |-> [f \in 1..FrameCount |-> 0], script |-> TRUE]

InitGen == gen = NoGen

\* the parser has not been called yet
Pending == [state |-> "pending", res |-> None]

NoOpt == [pc |-> "idle", animation |-> FALSE, data |-> <<>>,
          current |-> <<>>, attempts |-> 0, i |-> 0, frames |-> <<>>,
          log |-> {}, calls |-> 0, allSame |-> TRUE, fellBack |-> FALSE,
          sent |-> "nothing"]

NoEd == [heap |-> <<>>, current |-> 0, played |-> 0, running |-> FALSE]

NoCodec == [state |-> "pending", kind |-> "pattern", arg |-> <<>>,
            horizontal |-> TRUE, out |-> <<>>, sym |-> FALSE]

InitApp ==
    /\ opt = NoOpt
    /\ ed = NoEd
    /\ codec = NoCodec

\* MockSerial.__init__: in_buffer = []; no send_frame call yet
NoMock == [device |-> "none", pc |-> "idle", pattern |-> <<>>, i |-> 0,
           acks |-> {}, in_buffer |-> <<>>, queued |-> {}, got |-> {}]

\* the threads started by gen_single, gen_animation, optimize_current
WorkerIds == {"t1", "t2"}
RefinerIds == 1..MaxRounds

\* no thread in the slot
NoWorker == [kind |-> "none", pc |-> "none", animation |-> FALSE, op |-> None]
NoRefiner == [pc |-> "none", read |-> 0]

\* LEDMatrixApp.__init__: the fields, the buttons (both generate buttons,
\* and edit / publish / optimize), the text of the description entry,
\* AnimationManager.playing and stop_flag, the threads
NoCtl == [current_pattern |-> None, current_animation |-> None,
          current_file |-> "None", is_animation |-> FALSE,
          refinement_iterations |-> 0, currently_refining |-> FALSE,
          desc |-> FALSE, gen_btn |-> "disabled", edit_btn |-> "disabled",
          playing |-> FALSE, stop_flag |-> FALSE,
          workers |-> [w \in WorkerIds |-> NoWorker],
          refiners |-> [r \in RefinerIds |-> NoRefiner],
          animation |-> FALSE, started |-> FALSE, loadBroke |-> FALSE]

InitCtl ==
    /\ mock = NoMock
    /\ ctl = NoCtl

Init ==
    /\ revision \in Revisions
    /\ InitPlayback
    /\ InitLink
    /\ InitGen
    /\ InitApp
    /\ InitCtl
    /\ reply = <<>>
    /\ parsed = Pending

(***************************************************************************)
(* AnimationManager                                                        *)
(***************************************************************************)
Spawned == {l \in LoopIds : loops[l].pc # "none"}
Active  == {l \in LoopIds : loops[l].pc \in {"while", "for", "after", "sleep", "exit", "clear"}}

\* history: a step of start() ends the "stopped, no start() followed" period
StartFollows ==
    /\ stopped' = FALSE
    /\ sinceStop' = [l \in LoopIds |-> 0]

\* stop(): if self.playing: self.stop_flag.set()
SetFlagIfPlaying == playing

Stop(c) ==
    /\ callers[c].pc = "idle"
    /\ stop_flag' = (IF SetFlagIfPlaying THEN TRUE ELSE stop_flag)
    /\ stopped' = (IF SetFlagIfPlaying THEN TRUE ELSE stopped)
    /\ UNCHANGED <<ctlVars, appVars, aiVars, linkVars, revision, playing, loops, callers, emitted, stale, tkAlive, sinceStop, screen>>

\* start(frames), first statement: if self.playing: self.stop()
StartStop(c) ==
    /\ callers[c].pc = "idle"
    /\ Cardinality(Spawned) + Cardinality({d \in Callers : callers[d].pc # "idle"}) < MaxLoops
    /\ \E fr \in SampleFrames :
         callers' = [callers EXCEPT ![c] = [pc |-> "start_play", frames |-> fr]]
    /\ stop_flag' = (IF SetFlagIfPlaying THEN TRUE ELSE stop_flag)
    /\ StartFollows
    /\ UNCHANGED <<ctlVars, appVars, aiVars, linkVars, revision, playing, loops, emitted, stale, tkAlive, screen>>

\* self.playing = True
StartPlaying(c) ==
    /\ callers[c].pc = "start_play"
    /\ playing' = TRUE
    /\ callers' = [callers EXCEPT ![c].pc = "start_clear"]
    /\ StartFollows
    /\ UNCHANGED <<ctlVars, appVars, aiVars, linkVars, revision, stop_flag, loops, emitted, stale, tkAlive, screen>>

\* self.stop_flag.clear()
StartClear(c) ==
    /\ callers[c].pc = "start_clear"
    /\ stop_flag' = FALSE
    /\ callers' = [callers EXCEPT ![c].pc = "start_spawn"]
    /\ StartFollows
    /\ UNCHANGED <<ctlVars, appVars, aiVars, linkVars, revision, playing, loops, emitted, stale, tkAlive, screen>>

\* threading.Thread(target=self._play, args=(frames,), daemon=True).start()
StartSpawn(c) ==
    /\ callers[c].pc = "start_spawn"
    /\ LET l == CHOOSE k \in LoopIds \ Spawned : \A m \in LoopIds \ Spawned : k <= m
       IN loops' = [loops EXCEPT ![l] = [pc |-> "while", frames |-> callers[c].frames, i |-> 0]]
    /\ callers' = [callers EXCEPT ![c] = [pc |-> "idle", frames |-> <<>>]]
    /\ StartFollows
    /\ UNCHANGED <<ctlVars, appVars, aiVars, linkVars, revision, playing, stop_flag, emitted, stale, tkAlive, screen>>

\* _play: while self.playing:
LoopWhile(l) ==
    /\ loops[l].pc = "while"
    /\ loops' = [loops EXCEPT ![l].pc = IF playing THEN "for" ELSE "exit", ![l].i = 1]
    /\ UNCHANGED <<ctlVars, appVars, aiVars, linkVars, revision, playing, stop_flag, callers, emitted, stale, tkAlive, stopped, sinceStop, screen>>

\* _play: for f in frames: if self.stop_flag.is_set(): break
BreakOnFlag_Never == FALSE
BreakOnFlag == stop_flag

LoopFor(l) ==
    /\ loops[l].pc = "for"
    /\ loops' = [loops EXCEPT ![l].pc =
                    IF loops[l].i > Len(loops[l].frames) THEN "while"
                    ELSE IF BreakOnFlag THEN "while"
                    ELSE "after"]
    /\ UNCHANGED <<ctlVars, appVars, aiVars, linkVars, revision, playing, stop_flag, callers, emitted, stale, tkAlive, stopped, sinceStop, screen>>

\* _play: self.canvas.after(0, lambda ff=f: self.update_leds(ff, animation=True))
LoopAfter(l) ==
    /\ loops[l].pc = "after"
    /\ tkAlive
    /\ loops' = [loops EXCEPT ![l].pc = "sleep"]
    /\ emitted' = emitted \cup {l}
    /\ stale' = (stale \/ \E b \in emitted : b > l)
    /\ sinceStop' = [sinceStop EXCEPT ![l] = IF stopped THEN @ + 1 ELSE @]
    /\ screen' = [screen EXCEPT !.queued = @ \cup {l}]
    /\ UNCHANGED <<ctlVars, appVars, aiVars, linkVars, revision, playing, stop_flag, callers, tkAlive, stopped>>

\* _play: canvas.after raises once the Tk application is gone.  ui.py: the
\* thread dies there.  led_matrix_control.py: the finally block runs.
LoopAfterRaises(l) ==
    /\ loops[l].pc = "after"
    /\ ~tkAlive
    /\ loops' = [loops EXCEPT ![l].pc = IF revision = "monolith" THEN "exit" ELSE "dead"]
    /\ UNCHANGED <<ctlVars, appVars, aiVars, linkVars, revision, playing, stop_flag, callers, emitted, stale, tkAlive, stopped, sinceStop, screen>>

\* _play: time.sleep(FRAME_DELAY_MS / 1000.0), then the next frame of the for
LoopSleep(l) ==
    /\ loops[l].pc = "sleep"
    /\ loops' = [loops EXCEPT ![l].pc = "for", ![l].i = @ + 1]
    /\ UNCHANGED <<ctlVars, appVars, aiVars, linkVars, revision, playing, stop_flag, callers, emitted, stale, tkAlive, stopped, sinceStop, screen>>

\* _play, after the while (finally: in led_matrix_control.py): self.playing = False
LoopExit(l) ==
    /\ loops[l].pc = "exit"
    /\ playing' = FALSE
    /\ loops' = [loops EXCEPT ![l].pc = "clear"]
    /\ UNCHANGED <<ctlVars, appVars, aiVars, linkVars, revision, stop_flag, callers, emitted, stale, tkAlive, stopped, sinceStop, screen>>

\* _play: self.stop_flag.clear()
LoopClear(l) ==
    /\ loops[l].pc = "clear"
    /\ stop_flag' = FALSE
    /\ loops' = [loops EXCEPT ![l].pc = "done"]
    /\ UNCHANGED <<ctlVars, appVars, aiVars, linkVars, revision, playing, callers, emitted, stale, tkAlive, stopped, sinceStop, screen>>

\* the root window is destroyed: the Tk main loop ends
TkQuit ==
    /\ tkAlive
    /\ tkAlive' = FALSE
    /\ UNCHANGED <<ctlVars, appVars, aiVars, linkVars, revision, playing, stop_flag, loops, callers, emitted, stale, stopped, sinceStop, screen>>

LoopStep(l) ==
    \/ LoopWhile(l)
    \/ LoopFor(l)
    \/ LoopAfter(l)
    \/ LoopSleep(l)
    \/ LoopExit(l)
    \/ LoopClear(l)

NextPlayback ==
    \/ \E c \in Callers : Stop(c)
    \/ \E c \in Callers : StartStop(c)
    \/ \E c \in Callers : StartPlaying(c)
    \/ \E c \in Callers : StartClear(c)
    \/ \E c \in Callers : StartSpawn(c)
    \/ \E l \in LoopIds : LoopStep(l)
    \/ \E l \in LoopIds : LoopAfterRaises(l)
    \/ TkQuit

SpecPlayback == Init /\ [][NextPlayback]_vars

\* the operating system schedules every thread that can run
FairPlayback == SpecPlayback /\ \A l \in LoopIds : WF_vars(LoopStep(l))

(***************************************************************************)
(* DeviceLink: send_frame / send_animation (serial_utils.py) and           *)
(* send_single_frame / send_animation (led_matrix_control.py)              *)
(*                                                                         *)
(* ser is a serial.Serial.  The MockSerial of either revision never fails  *)
(* a write and never has input waiting: it behaves as a device that sends  *)
(* no line.  A flush() writes nothing; its failure is the failure of the   *)
(* write it follows.                                                       *)
(***************************************************************************)
RECURSIVE Flatten(_)
\* for frame in frames: for byte in frame: the bytes in the order written
Flatten(frames) == IF frames = <<>> THEN <<>> ELSE Head(frames) \o Flatten(Tail(frames))

\* len(pattern) != 8 is rejected
LenOK_AtLeast(p) == Len(p) >= 8
LenOK(p) == Len(p) = 8

\* frame_count < 1 or frame_count > max_frames is rejected
FrameCountOK_NoUpper(n) == n >= 1
FrameCountOK(n) == ~(n < 1 \/ n > max_frames)

\* bytes([b]) accepts 0..255
IsByte(b) == b \in 0..255

\* the end marker of a message
EndMarker_Swapped(op) == IF op = "frame" THEN AnimEnd ELSE FrameEnd
EndMarker(op) == IF op = "frame" THEN FrameEnd ELSE AnimEnd

in_waiting == Len(inbuf) > 0

WritePcs == {"w_start", "w_payload", "w_end", "a_start", "a_count", "a_payload", "a_end"}

Logged(t, msg) == \E k \in 1..Len(senders[t].log) : senders[t].log[k] = msg

\* ser.write(bs) by thread t
Write(t, bs, pc2, i2) ==
    /\ senders' = [senders EXCEPT ![t].written = @ \o bs, ![t].pc = pc2, ![t].i = i2]
    /\ lastWriter' = t
    /\ torn' = (torn \/ (senders[t].written # <<>> /\ lastWriter # t))

\* except Exception as e: logger(f"Serial error: {e}")
Except(t) ==
    /\ senders' = [senders EXCEPT ![t].log = Append(@, "serial_error"), ![t].pc = "done"]
    /\ UNCHANGED <<lastWriter, torn>>

\* send_frame(ser, pattern) / send_single_frame(ser, pattern): the length check
SendFrameCall(t) ==
    /\ senders[t].pc = "idle"
    /\ \E p \in SamplePatterns :
         senders' = [senders EXCEPT ![t] =
            IF LenOK(p)
            THEN [NoSend EXCEPT !.pc = "w_start", !.op = "frame", !.data = p, !.flat = p]
            ELSE [NoSend EXCEPT !.pc = "done", !.op = "frame", !.data = p, !.flat = p,
                                !.log = <<"invalid">>]]
    /\ UNCHANGED <<ctlVars, appVars, aiVars, playVars, revision, inbuf, devLines, lastWriter, torn>>

\* ser.write(bytes([0xFF]))
FrameWriteStart(t) ==
    /\ senders[t].pc = "w_start"
    /\ Write(t, <<FrameStart>>, "w_payload", 1)
    /\ UNCHANGED <<ctlVars, appVars, aiVars, playVars, revision, inbuf, devLines>>

\* for b in pattern: ser.write(bytes([b]))
WritePayload(t) ==
    /\ senders[t].pc \in {"w_payload", "a_payload"}
    /\ LET r == senders[t]
           endpc == IF r.pc = "w_payload" THEN "w_end" ELSE "a_end"
       IN IF r.i > Len(r.flat)
          THEN /\ senders' = [senders EXCEPT ![t].pc = endpc]
               /\ UNCHANGED <<lastWriter, torn>>
          ELSE IF IsByte(r.flat[r.i])
          THEN Write(t, <<r.flat[r.i]>>, r.pc, r.i + 1)
          ELSE Except(t)
    /\ UNCHANGED <<ctlVars, appVars, aiVars, playVars, revision, inbuf, devLines>>

\* ser.write(bytes([0xFE])); serial_utils.py goes on to update_preview,
\* led_matrix_control.py to the acknowledgment wait
FrameWriteEnd(t) ==
    /\ senders[t].pc = "w_end"
    /\ Write(t, <<EndMarker("frame")>>,
             IF revision = "monolith" THEN "ack_check" ELSE "preview", 0)
    /\ UNCHANGED <<ctlVars, appVars, aiVars, playVars, revision, inbuf, devLines>>

\* a ser.write or ser.flush raises (the port is gone)
WriteRaises(t) ==
    /\ senders[t].pc \in WritePcs
    /\ senders' = [senders EXCEPT ![t].log = Append(@, "serial_error"),
                                  ![t].wfail = TRUE, ![t].pc = "done"]
    /\ UNCHANGED <<ctlVars, appVars, aiVars, playVars, revision, inbuf, devLines, lastWriter, torn>>

\* send_single_frame: while not ack and (time.time() - start) < 5:
AckCheck(t) ==
    /\ senders[t].pc = "ack_check"
    /\ senders' = [senders EXCEPT ![t].pc =
          IF ~senders[t].ack /\ senders[t].elapsed < AckTimeout
          THEN "ack_poll" ELSE "ack_done"]
    /\ UNCHANGED <<ctlVars, appVars, aiVars, playVars, revision, inbuf, devLines, lastWriter, torn>>

\* send_single_frame: if ser.in_waiting: response = ser.readline().decode().strip();
\* logger("Serial Ack: ..."); if response == "Pattern received.": ack = True
AckPoll(t) ==
    /\ senders[t].pc = "ack_poll"
    /\ IF in_waiting
       THEN /\ senders' = [senders EXCEPT
                  ![t].pc = "ack_check",
                  ![t].log = Append(@, "serial_ack"),
                  ![t].ack = (Head(inbuf) = "Pattern received."),
                  ![t].lateRead = (@ \/ (Head(inbuf) = "Pattern received."
                                         /\ senders[t].elapsed >= AckTimeout))]
            /\ inbuf' = Tail(inbuf)
       ELSE /\ senders' = [senders EXCEPT ![t].pc = "ack_check"]
            /\ UNCHANGED inbuf
    /\ UNCHANGED <<ctlVars, appVars, aiVars, playVars, revision, devLines, lastWriter, torn>>

\* send_single_frame: if not ack and logger: logger("No acknowledgment for single pattern.")
AckDone(t) ==
    /\ senders[t].pc = "ack_done"
    /\ senders' = [senders EXCEPT ![t].pc = "preview",
          ![t].log = IF senders[t].ack THEN @ ELSE Append(@, "no_ack")]
    /\ UNCHANGED <<ctlVars, appVars, aiVars, playVars, revision, inbuf, devLines, lastWriter, torn>>

\* time passes while a thread waits for the acknowledgment
Tick(t) ==
    /\ senders[t].pc \in {"ack_check", "ack_poll"}
    /\ senders[t].elapsed < AckTimeout
    /\ senders' = [senders EXCEPT ![t].elapsed = @ + 1]
    /\ UNCHANGED <<ctlVars, appVars, aiVars, playVars, revision, inbuf, devLines, lastWriter, torn>>

\* update_preview(pattern, animation=False).  led_matrix_control.py goes on:
\* ser.flushInput(); ser.master.update_idletasks() -- ser has no attribute
\* master, the AttributeError is caught by the except of send_single_frame
Preview(t) ==
    /\ senders[t].pc = "preview"
    /\ IF revision = "monolith"
       THEN /\ senders' = [senders EXCEPT ![t].previewed = TRUE, ![t].pc = "done",
                                          ![t].log = Append(@, "serial_error")]
            /\ inbuf' = <<>>
       ELSE /\ senders' = [senders EXCEPT ![t].previewed = TRUE, ![t].pc = "done"]
            /\ UNCHANGED inbuf
    /\ UNCHANGED <<ctlVars, appVars, aiVars, playVars, revision, devLines, lastWriter, torn>>

\* send_animation(ser, frames): the frame count check
SendAnimationCall(t) ==
    /\ senders[t].pc = "idle"
    /\ \E fr \in SampleAnimations :
         senders' = [senders EXCEPT ![t] =
            IF FrameCountOK(Len(fr))
            THEN [NoSend EXCEPT !.pc = "a_start", !.op = "animation", !.data = fr,
                                !.flat = Flatten(fr)]
            ELSE [NoSend EXCEPT !.pc = "done", !.op = "animation", !.data = fr,
                                !.flat = Flatten(fr), !.log = <<"invalid">>]]
    /\ UNCHANGED <<ctlVars, appVars, aiVars, playVars, revision, inbuf, devLines, lastWriter, torn>>

\* serial_utils.py: ser.write(bytes([0xFA, frame_count]))
\* led_matrix_control.py: ser.write(bytes([0xFA])); ser.flush()
AnimWriteStart(t) ==
    /\ senders[t].pc = "a_start"
    /\ IF revision = "monolith"
       THEN Write(t, <<AnimStart>>, "a_count", 0)
       ELSE Write(t, <<AnimStart, Len(senders[t].data)>>, "a_payload", 1)
    /\ UNCHANGED <<ctlVars, appVars, aiVars, playVars, revision, inbuf, devLines>>

\* led_matrix_control.py: ser.write(bytes([count])); ser.flush()
AnimWriteCount(t) ==
    /\ senders[t].pc = "a_count"
    /\ Write(t, <<Len(senders[t].data)>>, "a_payload", 1)
    /\ UNCHANGED <<ctlVars, appVars, aiVars, playVars, revision, inbuf, devLines>>

\* ser.write(bytes([0xFB])), and send_animation returns
AnimWriteEnd(t) ==
    /\ senders[t].pc = "a_end"
    /\ Write(t, <<EndMarker("animation")>>, "done", 0)
    /\ UNCHANGED <<ctlVars, appVars, aiVars, playVars, revision, inbuf, devLines>>

\* the device sends a line
DeviceReplies ==
    /\ devLines < MaxLines
    /\ \E line \in AckLines : inbuf' = Append(inbuf, line)
    /\ devLines' = devLines + 1
    /\ UNCHANGED <<ctlVars, appVars, aiVars, playVars, revision, senders, lastWriter, torn>>

NextLink ==
    \/ \E t \in Senders : SendFrameCall(t)
    \/ \E t \in Senders : FrameWriteStart(t)
    \/ \E t \in Senders : WritePayload(t)
    \/ \E t \in Senders : FrameWriteEnd(t)
    \/ \E t \in Senders : WriteRaises(t)
    \/ \E t \in Senders : AckCheck(t)
    \/ \E t \in Senders : AckPoll(t)
    \/ \E t \in Senders : AckDone(t)
    \/ \E t \in Senders : Tick(t)
    \/ \E t \in Senders : Preview(t)
    \/ \E t \in Senders : SendAnimationCall(t)
    \/ \E t \in Senders : AnimWriteStart(t)
    \/ \E t \in Senders : AnimWriteCount(t)
    \/ \E t \in Senders : AnimWriteEnd(t)
    \/ DeviceReplies

SpecLink == Init /\ [][NextLink]_vars

(***************************************************************************)
(* Claims about the playback scheduler                                     *)
(***************************************************************************)
StartRunning == \E c \in Callers : callers[c].pc # "idle"

\* C1: at most one playback loop is alive at any time, and once a newer loop
\* has passed a frame to the visual-update callback no older loop passes one.
C1_OneLoopAtATime == Cardinality(Active) <= 1 /\ ~stale

\* C2: after stop() on a Running scheduler with one loop, with no start()
\* following (and the Tk application alive), the loop eventually exits with the signal cleared
\* and playing False.
C2_StopLeadsToIdle ==
    []((stopped /\ playing /\ Cardinality(Spawned) = 1 /\ [](~StartRunning /\ tkAlive))
         => <>(~playing /\ ~stop_flag /\ Active = {}))

\* C3: once stop() has set the signal and no start() follows, each playback
\* loop passes at most one further frame to the visual-update callback.
C3_AtMostOneMoreFrame == \A l \in LoopIds : sinceStop[l] <= 1

\* C3 witness: a loop passed its one further frame after stop(), then saw the
\* signal and broke out of the for loop.
C3_Witness ==
    \E l \in LoopIds : stopped /\ stop_flag /\ sinceStop[l] = 1 /\ loops[l].pc = "while"

(***************************************************************************)
(* Claims about the device link                                            *)
(***************************************************************************)
\* what the caller can tell from the logger calls of one send
AckResult(t) ==
    IF Logged(t, "invalid") THEN "ValidationError"
    ELSE IF Logged(t, "serial_error") THEN "TransportError"
    ELSE IF senders[t].ack THEN "Acknowledged"
    ELSE IF Logged(t, "no_ack") THEN "TimedOut"
    ELSE "Sent"

ValidPattern(p) == Len(p) = 8 /\ \A k \in 1..Len(p) : p[k] \in 0..255

IsPrefix(a, b) == Len(a) <= Len(b) /\ SubSeq(b, 1, Len(a)) = a

\* the send of thread t wrote every byte of its message without an exception
Completed(t) ==
    /\ senders[t].pc \in {"ack_check", "ack_poll", "ack_done", "preview", "done"}
    /\ ~senders[t].wfail
    /\ ~Logged(t, "invalid")
    /\ \A k \in 1..Len(senders[t].flat) : senders[t].flat[k] \in 0..255

\* C4: the bytes of two sends on the same stream are never interleaved: no
\* thread writes between two writes of another send.
C4_NoInterleaving == ~torn

\* C5: for a valid 8-value pattern and a working stream, the bytes a send_frame
\* call writes are 0xFF, pattern[0..7], 0xFE, in this order, and nothing else.
C5_FrameBytes ==
    \A t \in Senders :
        (senders[t].op = "frame" /\ ValidPattern(senders[t].data)) =>
            /\ IsPrefix(senders[t].written, <<255>> \o senders[t].data \o <<254>>)
            /\ Completed(t) => senders[t].written = <<255>> \o senders[t].data \o <<254>>

\* C5 witness: a send_frame call of a valid pattern has written its ten bytes.
C5_Witness ==
    \E t \in Senders :
        /\ senders[t].op = "frame" /\ senders[t].data = PatMarkers
        /\ senders[t].pc = "done" /\ Completed(t)
        /\ Len(senders[t].written) = 10

\* C6: a send_animation call that has written its message (no write raised)
\* has written 0xFA, the count byte N = number of frames, 8*N payload bytes
\* (the rows of the frames in order) and 0xFB.
C6_AnimationBytes ==
    \A t \in Senders :
        (senders[t].op = "animation" /\ Completed(t) /\ senders[t].written # <<>>) =>
            /\ senders[t].written =
                  <<250, Len(senders[t].data)>> \o Flatten(senders[t].data) \o <<251>>
            /\ Len(senders[t].written) = 2 + 8 * Len(senders[t].data) + 1

\* C7: send_frame with a pattern whose length is not 8 reports a validation
\* failure and writes no byte.
C7_BadLengthRejected ==
    \A t \in Senders :
        (senders[t].op = "frame" /\ Len(senders[t].data) # 8) =>
            /\ senders[t].written = <<>>
            /\ senders[t].pc = "done"
            /\ AckResult(t) = "ValidationError"

\* C7 witness: a 7-element and a 9-element pattern have both been rejected.
C7_Witness ==
    \E t, u \in Senders :
        /\ senders[t].op = "frame" /\ senders[t].data = Pat7 /\ senders[t].pc = "done"
        /\ senders[u].op = "frame" /\ senders[u].data = Pat9 /\ senders[u].pc = "done"

\* C8: send_animation with 0 frames or more than 10 frames reports a
\* validation failure and writes no byte.
C8_BadCountRejected ==
    \A t \in Senders :
        (senders[t].op = "animation"
            /\ (Len(senders[t].data) = 0 \/ Len(senders[t].data) > 10)) =>
            /\ senders[t].written = <<>>
            /\ senders[t].pc = "done"
            /\ AckResult(t) = "ValidationError"

\* C8 witness: an empty and an 11-frame animation have both been rejected.
C8_Witness ==
    \E t, u \in Senders :
        /\ senders[t].op = "animation" /\ Len(senders[t].data) = 0 /\ senders[t].pc = "done"
        /\ senders[u].op = "animation" /\ Len(senders[u].data) = 11 /\ senders[u].pc = "done"

\* C9: a single-frame send that wrote its frame ends Acknowledged or TimedOut,
\* Acknowledged exactly when "Pattern received." was read before the timeout
\* of 5 elapsed; success is never reported without a matching line.
C9_FrameAck ==
    \A t \in Senders :
        (senders[t].op = "frame" /\ senders[t].pc = "done" /\ Completed(t)) =>
            /\ AckResult(t) \in {"Acknowledged", "TimedOut"}
            /\ AckResult(t) = "Acknowledged" <=> (senders[t].ack /\ ~senders[t].lateRead)
            /\ AckResult(t) = "TimedOut" => senders[t].elapsed = AckTimeout

\* C10: an animation send that wrote its message has waited for the
\* acknowledgment: it read an accepted line or the timeout of 5 elapsed.
C10_AnimationAck ==
    \A t \in Senders :
        (senders[t].op = "animation" /\ senders[t].pc = "done" /\ Completed(t)) =>
            \/ senders[t].ack
            \/ senders[t].elapsed = AckTimeout

\* C11: when a single frame is sent and the device never responds, the send
\* ends after the timeout of 5 with the timeout reported, and the
\* visual-update callback has been invoked with the pattern.
C11_TimeoutStillPreviews ==
    \A t \in Senders :
        (senders[t].op = "frame" /\ senders[t].pc = "done" /\ Completed(t)
            /\ devLines = 0) =>
            /\ senders[t].elapsed = AckTimeout
            /\ Logged(t, "no_ack")
            /\ senders[t].previewed

\* C12: a send in which a write or flush failed returns (no exception leaves
\* it) with a transport error reported, and a send in which every write
\* succeeded reports no transport error, so that the two can be told apart.
C12_TransportErrorDistinct ==
    \A t \in Senders :
        /\ senders[t].wfail =>
              senders[t].pc = "done" /\ AckResult(t) = "TransportError"
        /\ (senders[t].pc = "done" /\ Completed(t)) =>
              AckResult(t) # "TransportError"

(***************************************************************************)
(* Text.  A reply is a sequence of characters.                             *)
(***************************************************************************)
Digits == {"0", "1", "2", "3", "4", "5", "6", "7", "8", "9"}
DigitChar == <<"0", "1", "2", "3", "4", "5", "6", "7", "8", "9">>
DigitVal(c) == CHOOSE d \in 0..9 : DigitChar[d + 1] = c
Whitespace == {" ", "\n"}

\* str.replace(old, ''): every occurrence of the character is removed
replace(raw, old) == SelectSeq(raw, LAMBDA c : c # old)

\* str.strip(): leading and trailing whitespace is removed
RECURSIVE lstrip(_)
lstrip(s) ==
    IF s # <<>> /\ Head(s) \in Whitespace THEN lstrip(Tail(s)) ELSE s

RECURSIVE rstrip(_)
rstrip(s) ==
    IF s # <<>> /\ s[Len(s)] \in Whitespace
    THEN rstrip(SubSeq(s, 1, Len(s) - 1)) ELSE s

strip(s) == rstrip(lstrip(s))

\* int(text, base) for a text of digits
RECURSIVE int(_, _)
int(ds, base) ==
    IF ds = <<>> THEN 0
    ELSE int(SubSeq(ds, 1, Len(ds) - 1), base) * base + DigitVal(ds[Len(ds)])

\* the regular expression B[01]{8} matches at position i
MatchB(s, i) ==
    /\ i + 8 <= Len(s)
    /\ s[i] = "B"
    /\ \A k \in 1..8 : s[i + k] \in {"0", "1"}

Min(S) == CHOOSE x \in S : \A y \in S : x <= y

\* re.findall(r'B[01]{8}', s): the matches from left to right, the search
\* for the next one starting behind the match
RECURSIVE findall(_, _)
findall(s, i) ==
    LET found == { j \in i..Len(s) : MatchB(s, j) }
    IN  IF found = {} THEN <<>>
        ELSE <<SubSeq(s, Min(found), Min(found) + 8)>>
               \o findall(s, Min(found) + 9)

\* lines[:8]
FirstEight_Last(xs) == SubSeq(xs, Len(xs) - 7, Len(xs))

FirstEight(xs) == SubSeq(xs, 1, 8)

\* int(b[1:], 2)
BinaryValue_Decimal(b) == int(Tail(b), 10)

BinaryValue(b) == int(Tail(b), 2)

\* ai_utils.parse_response
parse_response(raw) ==
    LET lines == findall(replace(raw, ","), 1)
    IN  IF Len(lines) < 8 THEN None
        ELSE Some([k \in 1..8 |-> BinaryValue(FirstEight(lines)[k])])

\* re.split(r'[,\s]+', s): the pieces between the runs of separators, an
\* empty piece before a leading run and behind a trailing one
RECURSIVE re_split(_, _)
re_split(s, i) ==
    LET seps == { j \in i..Len(s) : s[j] \in Whitespace \cup {","} }
        rest == { j \in i..Len(s) : j > Min(seps) /\ j \notin seps }
    IN  IF seps = {} THEN <<SubSeq(s, i, Len(s))>>
        ELSE <<SubSeq(s, i, Min(seps) - 1)>>
               \o ( IF rest = {} THEN << <<>> >> ELSE re_split(s, Min(rest)) )

\* str.isdigit()
isdigit(n) == n # <<>> /\ \A k \in 1..Len(n) : n[k] \in Digits

\* all(0 <= n <= 255 for n in nums_int)
InRange_Any(n) == n >= 0

InRange(n) == 0 <= n /\ n <= 255

\* nums = [n for n in re.split(r'[,\s]+', raw) if n.isdigit()], the
\* brackets removed first
numeric_tokens(raw) ==
    SelectSeq(re_split(replace(replace(raw, "["), "]"), 1), isdigit)

\* led_matrix_control.parse_ai_response_to_numbers
parse_ai_response_to_numbers(raw) ==
    LET nums == numeric_tokens(raw)
        nums_int == [k \in 1..8 |-> int(nums[k], 10)]
    IN  IF Len(nums) < 8 THEN None
        ELSE IF \A k \in 1..8 : InRange(nums_int[k]) THEN Some(nums_int)
        ELSE None

\* the parser of the running revision
Parse(raw) ==
    IF revision = "refactored" THEN parse_response(raw)
    ELSE parse_ai_response_to_numbers(raw)

(***************************************************************************)
(* Sample replies, written the way the prompts ask for them.               *)
(***************************************************************************)
\* the digits of n in the base, most significant first
RECURSIVE ToBase(_, _)
ToBase(n, base) ==
    IF n < base THEN <<DigitChar[n + 1]>>
    ELSE Append(ToBase(n \div base, base), DigitChar[(n % base) + 1])

\* str.zfill(8)
RECURSIVE zfill(_)
zfill(ds) == IF Len(ds) >= 8 THEN ds ELSE zfill(<<"0">> \o ds)

\* 'B' + bin(row)[2:].zfill(8)
BLine(row) == <<"B">> \o zfill(ToBase(row, 2))

\* str(row)
DecText(row) == ToBase(row, 10)

\* sep.join(pieces)
RECURSIVE join(_, _)
join(pieces, sep) ==
    IF pieces = <<>> THEN <<>>
    ELSE IF Len(pieces) = 1 THEN pieces[1]
    ELSE pieces[1] \o sep \o join(Tail(pieces), sep)

PatDecimal == <<12, 34, 56, 78, 90, 11, 22, 33>>

SampleRows ==
    { simple_pattern, PatRamp, PatMarkers, PatDecimal, Pat7, Pat9, PatOut, <<>> }

SampleSeparators == { <<"\n">>, <<",">>, <<",", " ">>, <<" ">>, <<>> }

\* text in front of the rows: nothing, a label, a line with a comma in it
SamplePrefixes ==
    { <<>>, <<"B", "i", "t", "s", ":", " ">>,
      <<"B", "1", "1", "1", "1", ",", "1", "1", "1", "1", "\n">> }

BinaryReply(rows, sep) == join([k \in 1..Len(rows) |-> BLine(rows[k])], sep)
DecimalReply(rows, sep) == join([k \in 1..Len(rows) |-> DecText(rows[k])], sep)
ListReply(rows, sep) == <<"[">> \o DecimalReply(rows, sep) \o <<"]">>

\* the replies handed to the parsers; decimal rows always have a separator
\* (a run of 10 digits and more is past the 32-bit integers of TLC)
ParseReplies ==
    { pre \o body :
        pre \in SamplePrefixes,
        body \in UNION { { BinaryReply(rows, sep) } \cup
                         ( IF sep = <<>> THEN {}
                           ELSE { DecimalReply(rows, sep), ListReply(rows, sep) } ) :
                         rows \in SampleRows, sep \in SampleSeparators } }

(***************************************************************************)
(* The parser applied to one reply.                                        *)
(***************************************************************************)
InitParse ==
    /\ revision \in Revisions
    /\ InitPlayback
    /\ InitLink
    /\ InitGen
    /\ InitApp
    /\ InitCtl
    /\ reply \in ParseReplies
    /\ parsed = Pending

\* parse_response(raw, logger) / parse_ai_response_to_numbers(raw, logger)
ParseCall ==
    /\ parsed.state = "pending"
    /\ parsed' = [state |-> "returned", res |-> Parse(reply)]
    /\ UNCHANGED <<ctlVars, appVars, revision, playVars, linkVars, gen, reply>>

NextParse == ParseCall

SpecParse == InitParse /\ [][NextParse]_vars

(***************************************************************************)
(* Claims about the parser.                                                *)
(***************************************************************************)
\* a list of exactly 8 integers, each in 0..255
WellFormed(v) == Len(v) = 8 /\ \A k \in 1..8 : v[k] \in 0..255

\* the maximal runs of digits of a text, by the position of their first digit
RunStarts(s) ==
    { i \in 1..Len(s) : s[i] \in Digits /\ (i = 1 \/ s[i - 1] \notin Digits) }

RunEnd(s, i) ==
    CHOOSE j \in i..Len(s) :
        /\ \A k \in i..j : s[k] \in Digits
        /\ j = Len(s) \/ s[j + 1] \notin Digits

\* the decimal values of the first 8 runs of digits
FirstRunValues(s) ==
    { int(SubSeq(s, i, RunEnd(s, i)), 10) :
        i \in { i \in RunStarts(s) :
                  Cardinality({ h \in RunStarts(s) : h < i }) < 8 } }

\* a reply of decimal numbers only, one of the first 8 above 255
DecimalOutOfRange(s) ==
    /\ \A k \in 1..Len(s) : s[k] \in Digits \cup Whitespace \cup {",", "[", "]"}
    /\ \E n \in FirstRunValues(s) : n > 255

TokenStarts(s) ==
    { i \in 1..(Len(s) - 8) :
        s[i] = "B" /\ \A k \in 1..8 : s[i + k] = "0" \/ s[i + k] = "1" }

Bit(c) == IF c = "1" THEN 1 ELSE 0

TokenValue(s, i) ==
    128 * Bit(s[i + 1]) + 64 * Bit(s[i + 2]) + 32 * Bit(s[i + 3])
      + 16 * Bit(s[i + 4]) + 8 * Bit(s[i + 5]) + 4 * Bit(s[i + 6])
      + 2 * Bit(s[i + 7]) + Bit(s[i + 8])

\* the position of the k-th token
NthToken(s, k) ==
    CHOOSE i \in TokenStarts(s) :
        Cardinality({ h \in TokenStarts(s) : h < i }) = k - 1

FirstTokenValues(s) == [k \in 1..8 |-> TokenValue(s, NthToken(s, k))]

CommaFree(s) == SelectSeq(s, LAMBDA c : c # ",")

\* C19 as written: parse_response on a reply containing at least 8 tokens
\* 'B' + 8 binary digits returns the values of the first 8 such tokens of
\* the reply, in order.
C19_FirstEightTokens ==
    (revision = "refactored" /\ parsed.state = "returned"
        /\ Cardinality(TokenStarts(reply)) >= 8) =>
        parsed.res = Some(FirstTokenValues(reply))

\* C19, amended: parse_response on a reply that contains at least 8 tokens
\* 'B' + 8 binary digits once its commas are removed returns the values of
\* the first 8 tokens of the reply without its commas, in order.
C19_FirstEightTokensCommaFree ==
    (revision = "refactored" /\ parsed.state = "returned"
        /\ Cardinality(TokenStarts(CommaFree(reply))) >= 8) =>
        parsed.res = Some(FirstTokenValues(CommaFree(reply)))

C19_Witness ==
    /\ revision = "refactored"
    /\ parsed.state = "returned"
    /\ Cardinality(TokenStarts(reply)) >= 8
    /\ Cardinality(TokenStarts(CommaFree(reply))) > Cardinality(TokenStarts(reply))
    /\ parsed.res = Some(FirstTokenValues(CommaFree(reply)))

(***************************************************************************)
(* Generation: generate_patterns.  One step is one attempt: the call of    *)
(* the service, the parsing of its reply and what the loops do with it.    *)
(***************************************************************************)
\* led_matrix_control.simple_symmetrical_pattern:
\* [(1 << (7 - i)) | (1 << i) for i in range(8)]
RECURSIVE BitOr(_, _)
BitOr(a, b) ==
    IF a = 0 THEN b
    ELSE IF b = 0 THEN a
    ELSE (IF a % 2 = 1 \/ b % 2 = 1 THEN 1 ELSE 0) + 2 * BitOr(a \div 2, b \div 2)

simple_symmetrical_pattern == [k \in 1..8 |-> BitOr(2 ^ (8 - k), 2 ^ (k - 1))]

\* what the service can do with a call: reply with a text, or fail
ReplyBinary  == BinaryReply(PatRamp, <<"\n">>) \o <<"\n">>
ReplyDecimal == DecimalReply(PatDecimal, <<",">>)
ReplyText    == <<"S", "o", "r", "r", "y", ".">>
ReplyBlank   == <<" ">>
ReplyOutOfRange == DecimalReply(PatOut, <<",", " ">>)

Outcomes ==
    { [kind |-> "text", text |-> t] :
        t \in {ReplyBinary, ReplyDecimal, ReplyText, ReplyBlank,
                ReplyOutOfRange} }
      \cup { [kind |-> "raise", text |-> <<>>] }

SampleFrameCounts == {1, FrameCount}

\* safe_chat_completion: the stripped content, or None after an exception
safe_chat_completion(o) ==
    IF o.kind = "raise" THEN [none |-> TRUE, text |-> <<>>]
    ELSE [none |-> FALSE, text |-> strip(o.text)]

\* if response:
Truthy(response) == ~response.none /\ response.text # <<>>

\* one attempt's call and parse: the response of safe_chat_completion, what
\* the parser returns for it (None without a response), and whether the
\* parser logs its failure
AttemptRefactored ==
    [o \in Outcomes |->
        LET response == safe_chat_completion(o)
            res == IF Truthy(response) THEN parse_response(response.text)
                   ELSE None
        IN  [response |-> response, res |-> res,
             logged |-> Truthy(response) /\ ~res.ok]]

AttemptMonolith ==
    [o \in Outcomes |->
        LET response == safe_chat_completion(o)
            res == IF Truthy(response)
                   THEN parse_ai_response_to_numbers(response.text) ELSE None
        IN  [response |-> response, res |-> res,
             logged |-> Truthy(response)
                          /\ Len(numeric_tokens(response.text)) < 8]]

\* for _ in range(3) / while attempts < 3
AttemptsLeft_OneMore(a) == a <= MaxAttempts

AttemptsLeft(a) == a < MaxAttempts

\* except Exception as e: logger(f"API error: {e}")
ErrorLogged_Never(o) == FALSE

ErrorLogged(o) == o.kind = "raise"

Bump(log, tag, cond) == IF cond THEN log \cup {tag} ELSE log

\* history of one call of the service: the calls made, an exception seen,
\* the first valid parse of a single-pattern call and a call made after it,
\* and, while the replies follow the script "two texts, then the decimal
\* row" for every frame, the number of calls made for each frame
Heard(g, o, res) ==
    LET follows == /\ g.script
                   /\ g.animation
                   /\ o.kind = "text"
                   /\ o.text = IF g.asked[g.i] < 2 THEN ReplyText
                               ELSE ReplyDecimal
    IN  [g EXCEPT !.calls = @ + 1,
                  !.erred = @ \/ o.kind = "raise",
                  !.afterValid = @ \/ (~g.animation /\ g.got.ok),
                  !.got = IF ~g.animation /\ res.ok /\ ~g.got.ok THEN res
                          ELSE @,
                  !.asked = IF follows THEN [@ EXCEPT ![g.i] = @ + 1]
                            ELSE [f \in 1..FrameCount |-> 0],
                  !.script = follows]

\* generate_patterns(desc, logger=self.log) and
\* generate_patterns(desc, animation=True, frame_count=5, logger=self.log)
GenerateCall(animation, frame_count) ==
    /\ gen.pc = "idle"
    /\ gen' = [gen EXCEPT !.pc = "try", !.animation = animation,
                          !.frame_count = frame_count,
                          !.i = IF animation THEN 1 ELSE 0]
    /\ UNCHANGED <<ctlVars, appVars, revision, playVars, linkVars, reply, parsed>>

\* ai_utils.generate_patterns: load_prompt raises FileNotFoundError
LoadPromptRaises ==
    /\ revision = "refactored"
    /\ gen.pc = "idle"
    /\ gen' = [gen EXCEPT !.pc = "raised"]
    /\ UNCHANGED <<ctlVars, appVars, revision, playVars, linkVars, reply, parsed>>

\* frames.append(...): return the list when it is complete, or go on with
\* the next frame; in ai_utils.py every frame starts a new "for _ in range(3)"
NextFrame(g, frames) ==
    IF g.i = g.frame_count
    THEN [g EXCEPT !.frames = frames, !.result = frames, !.pc = "done"]
    ELSE [g EXCEPT !.frames = frames, !.i = @ + 1,
                   !.attempts = IF revision = "refactored" THEN 0 ELSE @]

\* ai_utils.generate_patterns: one pass of "for _ in range(3)"
TryRefactored(o) ==
    /\ revision = "refactored"
    /\ gen.pc = "try"
    /\ LET a == AttemptRefactored[o]
           res == a.res
           log2 == Bump(Bump(gen.log, "api_error", ErrorLogged(o)),
                        "not_found", a.logged)
           g == [Heard(gen, o, res) EXCEPT !.log = log2]
           out == [g EXCEPT !.log = Bump(log2, "fallback", TRUE)]
       IN  gen' =
             IF res.ok
             THEN IF g.animation THEN NextFrame(g, Append(g.frames, res.val))
                  ELSE [g EXCEPT !.result = res.val, !.pc = "done"]
             ELSE IF AttemptsLeft(g.attempts + 1)
             THEN [g EXCEPT !.attempts = @ + 1]
             ELSE IF g.animation
             THEN NextFrame(out, Append(g.frames, simple_pattern))
             ELSE [out EXCEPT !.result = simple_pattern, !.pc = "done"]
    /\ UNCHANGED <<ctlVars, appVars, revision, playVars, linkVars, reply, parsed>>

\* led_matrix_control.generate_patterns: one call of the service inside
\* "while attempts < 3"
TryMonolith(o) ==
    /\ revision = "monolith"
    /\ gen.pc = "try"
    /\ LET a == AttemptMonolith[o]
           res == a.res
           log2 == Bump(Bump(gen.log, "api_error", ErrorLogged(o)),
                        "not_found", a.logged)
           log3 == Bump(Bump(log2, "invalid",
                             ~gen.animation /\ Truthy(a.response) /\ ~res.ok),
                        "no_response", ~gen.animation /\ ~Truthy(a.response))
           log4 == Bump(log3, "generated", gen.animation /\ res.ok)
           g == [Heard(gen, o, res) EXCEPT !.log = log4]
           again == [g EXCEPT !.attempts = @ + 1, !.frames = <<>>,
                              !.i = IF g.animation THEN 1 ELSE 0]
           fallen == [again EXCEPT
                        !.log = Bump(log4, "fallback", TRUE),
                        !.result = IF g.animation
                                   THEN Repeat(simple_symmetrical_pattern,
                                               g.frame_count)
                                   ELSE simple_symmetrical_pattern,
                        !.pc = "done"]
       IN  gen' =
             IF res.ok
             THEN IF g.animation THEN NextFrame(g, Append(g.frames, res.val))
                  ELSE [g EXCEPT !.result = res.val, !.pc = "done"]
             ELSE IF AttemptsLeft(g.attempts + 1) THEN again
             ELSE fallen
    /\ UNCHANGED <<ctlVars, appVars, revision, playVars, linkVars, reply, parsed>>

NextGen ==
    \/ \E animation \in BOOLEAN, frame_count \in SampleFrameCounts :
          GenerateCall(animation, frame_count)
    \/ LoadPromptRaises
    \/ \E o \in Outcomes : TryRefactored(o)
    \/ \E o \in Outcomes : TryMonolith(o)

SpecGen == Init /\ [][NextGen]_vars

(***************************************************************************)
(* Claims about generation.                                                *)
(***************************************************************************)
FallbackPattern == <<129, 66, 36, 24, 24, 36, 66, 129>>

\* C13: a single-pattern generation makes at most 3 calls of the service,
\* makes no call after a reply has parsed to a valid pattern, and returns
\* the pattern of the first reply that did.
C13_AtMostThreeCalls ==
    (gen.pc \in {"try", "done"} /\ ~gen.animation) =>
        /\ gen.calls <= MaxAttempts
        /\ ~gen.afterValid
        /\ gen.got.ok => gen.pc = "done" /\ gen.result = gen.got.val

C13_Witness ==
    /\ ~gen.animation
    /\ gen.pc = "done"
    /\ gen.calls = 2
    /\ gen.got.ok
    /\ gen.result = gen.got.val

\* C14: a single-pattern generation in which all three attempts failed
\* returns [129,66,36,24,24,36,66,129] and has logged the use of the fallback.
C14_FallbackAfterThree ==
    (gen.pc = "done" /\ ~gen.animation /\ ~gen.got.ok) =>
        /\ gen.calls = MaxAttempts
        /\ gen.result = FallbackPattern
        /\ "fallback" \in gen.log

C14_Witness ==
    /\ gen.pc = "done"
    /\ ~gen.animation
    /\ ~gen.got.ok
    /\ ~gen.erred
    /\ gen.calls = MaxAttempts
    /\ gen.result = FallbackPattern

\* C15: an animation generation that used the fallback for a frame returns
\* the fallback pattern repeated frame_count times, never a mix.
C15_NoPartialAnimation ==
    (gen.pc = "done" /\ gen.animation /\ "fallback" \in gen.log) =>
        gen.result = Repeat(FallbackPattern, gen.frame_count)

\* C16: in an animation of 5 frames where, for every frame, the first two
\* replies are text and the third is "12,34,56,78,90,11,22,33", every frame
\* is [12,34,56,78,90,11,22,33] and the fallback is not used.
C16_PerFrameBudget ==
    (gen.pc = "done" /\ gen.animation /\ gen.frame_count = FrameCount
        /\ gen.script) =>
        /\ gen.result = Repeat(PatDecimal, FrameCount)
        /\ "fallback" \notin gen.log

C20_ErrorIsFailedAttempt ==
    gen.erred =>
        /\ gen.pc \in {"try", "done"}
        /\ "api_error" \in gen.log
        /\ (gen.pc = "done" /\ ~gen.animation) =>
              gen.got.ok \/ gen.calls = MaxAttempts
        /\ (gen.pc = "done" /\ gen.animation) =>
              Len(gen.result) = gen.frame_count

C20_Witness ==
    /\ gen.erred
    /\ gen.pc = "done"
    /\ ~gen.animation
    /\ gen.calls = MaxAttempts
    /\ gen.got.ok
    /\ gen.result = gen.got.val
    /\ gen.log = {"api_error"}

(***************************************************************************)
(* Optimization: perform_optimization with its call of optimize_with_ai.   *)
(* One step is one call of the service; the step in which optimize_with_ai *)
(* returns also runs the rest of perform_optimization.                     *)
(***************************************************************************)
\* self.current_pattern / self.current_animation when Optimize is pressed
OptPatterns == {PatRamp, PatDecimal, PatMarkers, simple_pattern}
OptAnimations == {<<PatMarkers, PatMarkers>>, <<PatRamp, PatDecimal>>,
                  <<PatDecimal, PatRamp>>}

\* optimize_current -> perform_optimization -> optimize_with_ai(data, ...)
OptimizeCall(animation, data) ==
    /\ opt.pc = "idle"
    /\ opt' = [opt EXCEPT !.pc = "try", !.animation = animation,
                          !.data = data, !.current = data,
                          !.i = IF animation THEN 1 ELSE 0]
    /\ UNCHANGED <<ctlVars, revision, playVars, linkVars, aiVars, ed, codec>>

\* ai_utils.optimize_with_ai: load_prompt raises FileNotFoundError, which
\* perform_optimization logs
OptLoadPromptRaises ==
    /\ revision = "refactored"
    /\ opt.pc = "idle"
    /\ \E animation \in BOOLEAN :
         \E data \in (IF animation THEN OptAnimations ELSE OptPatterns) :
            opt' = [opt EXCEPT !.pc = "done", !.animation = animation,
                               !.data = data, !.current = data,
                               !.log = {"failed"}]
    /\ UNCHANGED <<ctlVars, revision, playVars, linkVars, aiVars, ed, codec>>

\* perform_optimization after optimize_with_ai has returned op
Returned(g, op) ==
    IF op # g.current
    THEN [g EXCEPT !.pc = "done", !.current = op,
                   !.log = @ \cup {"optimized"},
                   !.sent = IF g.animation THEN "animation" ELSE "frame"]
    ELSE [g EXCEPT !.pc = "done", !.log = @ \cup {"no_change"}]

\* the part of data the reply is compared with
Original(g) == IF g.animation THEN g.data[g.i] ELSE g.data

\* history of one call of the service during an optimization
OptHeard(g, res) ==
    [g EXCEPT !.calls = @ + 1,
              !.allSame = @ /\ res.ok /\ res.val = Original(g)]

\* ai_utils.optimize_with_ai: its one call for the pattern, or for a frame
OptTryRefactored(o) ==
    /\ revision = "refactored"
    /\ opt.pc = "try"
    /\ LET a == AttemptRefactored[o]
           res == a.res
           log2 == Bump(Bump(opt.log, "api_error", ErrorLogged(o)),
                        "not_found", a.logged)
           g == [OptHeard(opt, res) EXCEPT !.log = log2]
           frames == Append(g.frames, res.val)
           fallen == [g EXCEPT !.fellBack = TRUE]
       IN  opt' =
             IF res.ok /\ res.val # Original(g)
             THEN IF ~g.animation THEN Returned(g, res.val)
                  ELSE IF g.i = Len(g.data)
                  THEN Returned([g EXCEPT !.frames = frames], frames)
                  ELSE [g EXCEPT !.frames = frames, !.i = @ + 1]
             ELSE IF g.animation
             THEN Returned(fallen, Repeat(simple_pattern, Len(g.data)))
             ELSE Returned(fallen, simple_pattern)
    /\ UNCHANGED <<ctlVars, revision, playVars, linkVars, aiVars, ed, codec>>

\* led_matrix_control.optimize_with_ai: one call of the service inside
\* "while attempts < 3"
OptTryMonolith(o) ==
    /\ revision = "monolith"
    /\ opt.pc = "try"
    /\ LET a == AttemptMonolith[o]
           res == a.res
           good == res.ok /\ res.val # Original(opt)
           log2 == Bump(Bump(opt.log, "api_error", ErrorLogged(o)),
                        "not_found", a.logged)
           log3 == Bump(log2, "generated", good)
           g == [OptHeard(opt, res) EXCEPT !.log = log3]
           frames == Append(g.frames, res.val)
           again == [g EXCEPT !.attempts = @ + 1, !.frames = <<>>,
                              !.i = IF g.animation THEN 1 ELSE 0]
           fallen == [again EXCEPT !.log = Bump(log3, "fallback", TRUE),
                                   !.fellBack = TRUE]
       IN  opt' =
             IF good
             THEN IF ~g.animation THEN Returned(g, res.val)
                  ELSE IF g.i = Len(g.data)
                  THEN Returned([g EXCEPT !.frames = frames], frames)
                  ELSE [g EXCEPT !.frames = frames, !.i = @ + 1]
             ELSE IF AttemptsLeft(g.attempts + 1) THEN again
             ELSE IF g.animation
             THEN Returned(fallen, Repeat(simple_symmetrical_pattern,
                                          Len(g.data)))
             ELSE Returned(fallen, simple_symmetrical_pattern)
    /\ UNCHANGED <<ctlVars, revision, playVars, linkVars, aiVars, ed, codec>>

NextOpt ==
    \/ \E animation \in BOOLEAN :
         \E data \in (IF animation THEN OptAnimations ELSE OptPatterns) :
            OptimizeCall(animation, data)
    \/ OptLoadPromptRaises
    \/ \E o \in Outcomes : OptTryRefactored(o)
    \/ \E o \in Outcomes : OptTryMonolith(o)

SpecOpt == Init /\ [][NextOpt]_vars

(***************************************************************************)
(* Claims about optimization.                                              *)
(***************************************************************************)
\* C21: when every result the service returned was identical to the input,
\* the caller is told "no change": the current data stays as it was, nothing
\* is sent to the device, and no fallback is substituted.
C21_NoChangeSignalled ==
    (opt.pc = "done" /\ opt.calls > 0 /\ opt.allSame) =>
        /\ "no_change" \in opt.log
        /\ opt.current = opt.data
        /\ opt.sent = "nothing"
        /\ ~opt.fellBack

\* C22: the optimization of a pattern falls back only when 3 attempts have
\* failed: a malformed reply or an exception of the service is followed by
\* another attempt, up to 3.
C22_OptimizeRetries ==
    (opt.pc = "done" /\ ~opt.animation /\ opt.fellBack) =>
        opt.calls = MaxAttempts

\* C23: every optimization that substituted the fallback for a missing
\* valid result has logged the substitution.
C23_FallbackLogged ==
    (opt.pc = "done" /\ opt.fellBack) => "fallback" \in opt.log

(***************************************************************************)
(* Mirroring and symmetry: mirror_pattern, mirror_animation, is_symmetric  *)
(* (ai_utils.py) and mirror_pattern_horizontal, mirror_pattern_vertical,   *)
(* mirror_animation_horizontal, mirror_animation_vertical                  *)
(* (led_matrix_control.py).                                                *)
(***************************************************************************)
\* xs[::-1]
Reverse_Same(xs) == xs

Reverse(xs) == [k \in 1..Len(xs) |-> xs[Len(xs) + 1 - k]]

\* bin(row)[2:].zfill(8)
Bits_Unpadded(row) == ToBase(row, 2)

Bits(row) == zfill(ToBase(row, 2))

\* int(bin(row)[2:].zfill(8)[::-1], 2)
MirrorRow_Shift(row) == (row * 2) % 256

MirrorRow(row) == int(Reverse(Bits(row)), 2)

\* led_matrix_control.mirror_pattern_horizontal
mirror_pattern_horizontal(pattern) ==
    [k \in 1..Len(pattern) |-> MirrorRow(pattern[k])]

\* led_matrix_control.mirror_pattern_vertical
mirror_pattern_vertical(pattern) == Reverse(pattern)

\* ai_utils.mirror_pattern
mirror_pattern(pattern, horizontal) ==
    IF horizontal THEN [k \in 1..Len(pattern) |-> MirrorRow(pattern[k])]
    ELSE Reverse(pattern)

\* ai_utils.mirror_animation
mirror_animation(frames, horizontal) ==
    [k \in 1..Len(frames) |-> mirror_pattern(frames[k], horizontal)]

\* led_matrix_control.mirror_animation_horizontal
mirror_animation_horizontal(frames) ==
    [k \in 1..Len(frames) |-> mirror_pattern_horizontal(frames[k])]

\* led_matrix_control.mirror_animation_vertical
mirror_animation_vertical(frames) == Reverse(frames)

\* ai_utils.is_symmetric
RowSymmetric_Always(row) == TRUE

RowSymmetric(row) == Bits(row) = Reverse(Bits(row))

is_symmetric(pattern) ==
    IF \E k \in 1..Len(pattern) : ~RowSymmetric(pattern[k]) THEN FALSE
    ELSE pattern = Reverse(pattern)

\* the mirror functions of the running revision, as the edit windows call them
MirrorPattern(pattern, horizontal) ==
    IF revision = "refactored" THEN mirror_pattern(pattern, horizontal)
    ELSE IF horizontal THEN mirror_pattern_horizontal(pattern)
    ELSE mirror_pattern_vertical(pattern)

MirrorAnimation(frames, horizontal) ==
    IF revision = "refactored" THEN mirror_animation(frames, horizontal)
    ELSE IF horizontal THEN mirror_animation_horizontal(frames)
    ELSE mirror_animation_vertical(frames)

\* valid patterns: every row symmetric, or rows with one LED at the edge
CodecPatterns ==
    { [k \in 1..8 |-> f[k]] : f \in [1..8 -> {24, 129}] \cup [1..8 -> {1, 129}] }
      \cup {PatRamp, PatMarkers, PatDecimal, simple_pattern}

CodecFrames == {simple_pattern, PatRamp, PatMarkers}

CodecAnimations ==
    { <<>> } \cup { <<a>> : a \in CodecFrames }
      \cup { <<a, b>> : a \in CodecFrames, b \in CodecFrames }
      \cup { <<a, b, c>> : a \in CodecFrames, b \in CodecFrames, c \in {PatRamp} }

InitCodec ==
    /\ revision \in Revisions
    /\ InitPlayback
    /\ InitLink
    /\ InitGen
    /\ reply = <<>>
    /\ parsed = Pending
    /\ opt = NoOpt
    /\ ed = NoEd
    /\ InitCtl
    /\ \E kind \in {"pattern", "animation"} :
         \E arg \in (IF kind = "pattern" THEN CodecPatterns ELSE CodecAnimations) :
            codec = [NoCodec EXCEPT !.kind = kind, !.arg = arg, !.out = arg]

\* the function applied to a value
Mirror(kind, x, horizontal) ==
    IF kind = "pattern" THEN MirrorPattern(x, horizontal)
    ELSE MirrorAnimation(x, horizontal)

\* mirror_pattern(p, horizontal) / mirror_animation(a, horizontal)
MirrorCall(horizontal) ==
    /\ codec.state = "pending"
    /\ codec' = [codec EXCEPT !.state = "once", !.horizontal = horizontal,
                              !.out = Mirror(codec.kind, codec.arg, horizontal)]
    /\ UNCHANGED <<ctlVars, revision, playVars, linkVars, aiVars, opt, ed>>

\* the same function applied to the result
MirrorAgain ==
    /\ codec.state = "once"
    /\ codec' = [codec EXCEPT !.state = "twice",
                              !.out = Mirror(codec.kind, codec.out, codec.horizontal)]
    /\ UNCHANGED <<ctlVars, revision, playVars, linkVars, aiVars, opt, ed>>

\* is_symmetric(p), of ai_utils.py only
IsSymmetricCall ==
    /\ revision = "refactored"
    /\ codec.state = "pending"
    /\ codec.kind = "pattern"
    /\ codec' = [codec EXCEPT !.state = "checked", !.sym = is_symmetric(codec.arg)]
    /\ UNCHANGED <<ctlVars, revision, playVars, linkVars, aiVars, opt, ed>>

\* ACTIVE_COLOR, INACTIVE_COLOR; the characters of visualize_pattern, by name
ACTIVE_COLOR == "#FF0000"
INACTIVE_COLOR == "#330000"
FullBlock == "full block"
Bullet == "bullet"

\* the canvas after create_led_grid: every LED drawn with INACTIVE_COLOR
BlankLeds == [r \in 1..8 |-> [c \in 1..8 |-> INACTIVE_COLOR]]

\* col = ACTIVE_COLOR if b=='1' else INACTIVE_COLOR
Fill_Inverted(b) == IF b = "1" THEN INACTIVE_COLOR ELSE ACTIVE_COLOR

Fill(b) == IF b = "1" THEN ACTIVE_COLOR ELSE INACTIVE_COLOR

\* update_leds: itemconfig of self.leds[r][c] for every character c of the
\* bits of every row r of the pattern
update_leds(leds, pattern) ==
    [r \in 1..8 |-> [c \in 1..8 |->
        IF r <= Len(pattern) /\ c <= Len(Bits(pattern[r]))
        THEN Fill(Bits(pattern[r])[c])
        ELSE leds[r][c]]]

\* one line of visualize_pattern: a character for every bit, then "\n"
VisualLine(row) ==
    [c \in 1..Len(Bits(row)) |->
        IF Bits(row)[c] = "1" THEN FullBlock ELSE Bullet] \o <<"\n">>

\* ai_utils.visualize_pattern
RECURSIVE visualize_pattern(_)
visualize_pattern(pattern) ==
    IF pattern = <<>> THEN <<>>
    ELSE VisualLine(Head(pattern)) \o visualize_pattern(Tail(pattern))

\* update_leds(p) on the fresh canvas, and visualize_pattern(p) where the
\* revision has it
RenderCall ==
    /\ codec.state = "pending"
    /\ codec.kind = "pattern"
    /\ codec' = [codec EXCEPT
                    !.state = "rendered",
                    !.out = [leds |-> update_leds(BlankLeds, codec.arg),
                             text |-> IF revision = "refactored"
                                      THEN visualize_pattern(codec.arg)
                                      ELSE <<>>]]
    /\ UNCHANGED <<ctlVars, revision, playVars, linkVars, aiVars, opt, ed>>

NextCodec ==
    \/ \E horizontal \in BOOLEAN : MirrorCall(horizontal)
    \/ MirrorAgain
    \/ IsSymmetricCall
    \/ RenderCall

SpecCodec == InitCodec /\ [][NextCodec]_vars

(***************************************************************************)
(* Claims about mirroring and symmetry.                                    *)
(***************************************************************************)
\* the LED of a row in column c, counted from the left, 0..7
BitAt(row, c) == (row \div (2 ^ (7 - c))) % 2

\* C27: mirroring a valid pattern horizontally twice gives the pattern
\* back, bit for bit, and mirroring an animation vertically twice gives the
\* animation back.
C27_MirrorInvolutive ==
    /\ (codec.state = "twice" /\ codec.kind = "pattern" /\ codec.horizontal) =>
          /\ Len(codec.out) = Len(codec.arg)
          /\ \A r \in 1..Len(codec.arg) : \A c \in 0..7 :
                BitAt(codec.out[r], c) = BitAt(codec.arg[r], c)
    /\ (codec.state = "twice" /\ codec.kind = "animation" /\ ~codec.horizontal) =>
          codec.out = codec.arg

C27_Witness ==
    /\ codec.state = "twice"
    /\ codec.kind = "pattern"
    /\ codec.horizontal
    /\ codec.arg = PatRamp
    /\ codec.out = PatRamp

\* C28: the vertical mirror reverses the order at the top level and changes
\* nothing else: the rows of a pattern in reverse order, the frames of an
\* animation in reverse order, every frame as it was.
C28_VerticalReversesTopLevel ==
    (codec.state = "once" /\ ~codec.horizontal) =>
        /\ Len(codec.out) = Len(codec.arg)
        /\ \A k \in 1..Len(codec.arg) :
              codec.out[k] = codec.arg[Len(codec.arg) + 1 - k]

\* C29: mirror_animation applied horizontally keeps the number and the
\* order of the frames; frame i of the result is frame i of the input with
\* every row read from right to left, which is mirror_pattern(frame i).
C29_HorizontalFrameByFrame ==
    (codec.state = "once" /\ codec.kind = "animation" /\ codec.horizontal) =>
        /\ Len(codec.out) = Len(codec.arg)
        /\ \A k \in 1..Len(codec.arg) :
              /\ codec.out[k] = mirror_pattern(codec.arg[k], TRUE)
              /\ Len(codec.out[k]) = 8
              /\ \A r \in 1..8 : \A c \in 0..7 :
                    BitAt(codec.out[k][r], c) = BitAt(codec.arg[k][r], 7 - c)

C29_Witness ==
    /\ codec.state = "once"
    /\ codec.kind = "animation"
    /\ codec.horizontal
    /\ codec.arg = <<PatRamp, PatMarkers>>
    /\ codec.out[1][1] = 128
    /\ codec.out[2] # PatMarkers

\* C30: is_symmetric(p) is true exactly when every row of p reads the same
\* in both directions and the rows are the same from top and from bottom,
\* that is when both mirrors give p back.
C30_SymmetricIffBothMirrors ==
    codec.state = "checked" =>
        /\ codec.sym <=>
              /\ \A r \in 1..8 : \A c \in 0..7 :
                    BitAt(codec.arg[r], c) = BitAt(codec.arg[r], 7 - c)
              /\ \A r \in 1..8 : codec.arg[r] = codec.arg[9 - r]
        /\ codec.sym <=>
              /\ mirror_pattern(codec.arg, TRUE) = codec.arg
              /\ mirror_pattern(codec.arg, FALSE) = codec.arg

C30_Witness ==
    /\ codec.state = "checked"
    /\ codec.sym
    /\ codec.arg[1] # codec.arg[2]

\* C31: the fallback pattern has row i = (1 << (7-i)) | (1 << i) for i in
\* 0..7, and is_symmetric of it is true.
C31_FallbackSymmetric ==
    (codec.state = "checked" /\ codec.arg = simple_pattern) =>
        /\ codec.sym
        /\ \A i \in 0..7 : codec.arg[i + 1] = BitOr(2 ^ (7 - i), 2 ^ i)

C31_Witness ==
    /\ codec.state = "checked"
    /\ codec.arg = simple_pattern
    /\ codec.arg[2] = 66
    /\ codec.sym

\* C32: a pattern is drawn most significant bit first: the LED of the
\* preview at row r, column c is lit, and the character of the text form at
\* line r, position c is the full block, exactly when bit 7-c of row r is 1.
C32_MsbFirst ==
    codec.state = "rendered" =>
        /\ \A r \in 1..8 : \A c \in 0..7 :
              /\ codec.out.leds[r][c + 1] \in {ACTIVE_COLOR, INACTIVE_COLOR}
              /\ codec.out.leds[r][c + 1] = ACTIVE_COLOR
                    <=> BitAt(codec.arg[r], c) = 1
        /\ revision = "refactored" =>
              /\ Len(codec.out.text) = 72
              /\ \A r \in 1..8 :
                    /\ codec.out.text[9 * r] = "\n"
                    /\ \A c \in 0..7 :
                          /\ codec.out.text[9 * (r - 1) + c + 1] \in {FullBlock, Bullet}
                          /\ codec.out.text[9 * (r - 1) + c + 1] = FullBlock
                                <=> BitAt(codec.arg[r], c) = 1

C32_Witness ==
    /\ codec.state = "rendered"
    /\ revision = "refactored"
    /\ codec.arg = PatRamp
    /\ codec.out.leds[1][8] = ACTIVE_COLOR
    /\ codec.out.leds[1][1] = INACTIVE_COLOR
    /\ codec.out.text[8] = FullBlock

(***************************************************************************)
(* The frame lists of the application.  A Python list is an object: two    *)
(* names can hold the same list, and a change made through one name shows  *)
(* through the other.  ed.heap holds the lists, a name holds an index      *)
(* (0 for None).                                                           *)
(***************************************************************************)
\* frames returned by generate_patterns or read from a saved file
EditFrames == {<<PatRamp>>, <<simple_pattern, PatMarkers>>}

\* the LEDs clicked in the edit window: row rr and column cc, from 0
EditCells == {<<0, 0>>, <<7, 7>>}

\* generate_animation_patterns: self.current_animation = [f.copy() for f in
\* frames]; self.anim_manager.stop(); self.anim_manager.start(frames)
GenerateAnimation(frames) ==
    /\ Len(ed.heap) + 2 <= MaxObjects
    /\ ed' = [heap |-> ed.heap \o <<frames, frames>>,
              played |-> Len(ed.heap) + 1,
              current |-> Len(ed.heap) + 2,
              running |-> TRUE]
    /\ UNCHANGED <<ctlVars, revision, playVars, linkVars, aiVars, opt, codec>>

\* load_selection, an animation.  ui.py: self.current_animation = [fr.copy()
\* for fr in data['patterns']]; self.anim_manager.start(self.current_animation).
\* led_matrix_control.py: self.anim_manager.start(frames), frames being
\* data.get('patterns')
LoadAnimation(frames) ==
    /\ Len(ed.heap) + 2 <= MaxObjects
    /\ ed' = [heap |-> ed.heap \o <<frames, frames>>,
              played |-> IF revision = "refactored" THEN Len(ed.heap) + 2
                         ELSE Len(ed.heap) + 1,
              current |-> Len(ed.heap) + 2,
              running |-> TRUE]
    /\ UNCHANGED <<ctlVars, revision, playVars, linkVars, aiVars, opt, codec>>

\* load_selection, a single pattern: self.anim_manager.stop();
\* self.current_animation = None
LoadPattern ==
    /\ ed' = [ed EXCEPT !.current = 0, !.running = FALSE]
    /\ UNCHANGED <<ctlVars, revision, playVars, linkVars, aiVars, opt, codec>>

\* row |= (1 << (7 - cc)) if the LED was off, row &= ~(1 << (7 - cc)) if on
ToggleBit(row, cc) ==
    IF BitAt(row, cc) = 1 THEN row - 2 ^ (7 - cc)
    ELSE BitOr(row, 2 ^ (7 - cc))

\* edit_animation_window, toggle_led: self.current_animation[idx][rr] is
\* assigned in place
ToggleLed(idx, rr, cc) ==
    /\ ed.current # 0
    /\ idx + 1 <= Len(ed.heap[ed.current])
    /\ ed' = [ed EXCEPT !.heap[ed.current][idx + 1][rr + 1] = ToggleBit(@, cc)]
    /\ UNCHANGED <<ctlVars, revision, playVars, linkVars, aiVars, opt, codec>>

\* edit_animation_window, mirror_h / mirror_v:
\* self.current_animation = mirror_animation(self.current_animation, ...)
MirrorEdit(horizontal) ==
    /\ ed.current # 0
    /\ Len(ed.heap) + 1 <= MaxObjects
    /\ ed' = [ed EXCEPT !.heap = Append(@, MirrorAnimation(ed.heap[ed.current],
                                                           horizontal)),
                        !.current = Len(ed.heap) + 1]
    /\ UNCHANGED <<ctlVars, revision, playVars, linkVars, aiVars, opt, codec>>

NextEdit ==
    \/ \E frames \in EditFrames : GenerateAnimation(frames)
    \/ \E frames \in EditFrames : LoadAnimation(frames)
    \/ LoadPattern
    \/ \E idx \in 0..1, cell \in EditCells : ToggleLed(idx, cell[1], cell[2])
    \/ \E horizontal \in BOOLEAN : MirrorEdit(horizontal)

SpecEdit == Init /\ [][NextEdit]_vars

\* C24: while an animation is played back, the frame list the loop iterates
\* is never changed in place by an edit operation (LED toggle, mirror).
C24_NoInPlaceMutation ==
    [][ (ed.running /\ ed'.running /\ ed'.played = ed.played) =>
            ed'.heap[ed.played] = ed.heap[ed.played] ]_vars

(***************************************************************************)
(* The preview canvas.  canvas.after(0, ...) puts a callback in the queue  *)
(* of the Tk main loop; the main thread runs it when it is not inside      *)
(* another handler.  The callbacks a loop has queued are kept as one entry *)
(* per loop.                                                               *)
(***************************************************************************)
\* load_selection, a single pattern: self.anim_manager.stop();
\* self.update_leds(self.current_pattern)
LoadSingle ==
    /\ callers["main"].pc = "idle"
    /\ tkAlive
    /\ stop_flag' = (IF SetFlagIfPlaying THEN TRUE ELSE stop_flag)
    /\ stopped' = (IF SetFlagIfPlaying THEN TRUE ELSE stopped)
    /\ screen' = [screen EXCEPT !.preview = "single", !.covered = Spawned]
    /\ UNCHANGED <<ctlVars, appVars, aiVars, linkVars, revision, playing, loops, callers, emitted, stale, tkAlive, sinceStop>>

\* the Tk main loop runs a queued callback: self.update_leds(ff, animation=True)
TkRun(l) ==
    /\ callers["main"].pc = "idle"
    /\ tkAlive
    /\ l \in screen.queued
    /\ screen' = [screen EXCEPT
                    !.queued = @ \ {l},
                    !.preview = "animation",
                    !.overdrawn = @ \/ (screen.preview = "single"
                                          /\ l \in screen.covered)]
    /\ UNCHANGED <<ctlVars, appVars, aiVars, linkVars, revision, playing, stop_flag, loops, callers, emitted, stale, tkAlive, stopped, sinceStop>>

NextPreview ==
    \/ NextPlayback
    \/ LoadSingle
    \/ \E l \in LoopIds : TkRun(l)

SpecPreview == Init /\ [][NextPreview]_vars

\* C25: once a single pattern has been drawn on the preview after playback
\* was stopped, no frame of a stopped playback session is drawn over it.
C25_PreviewExclusive == ~screen.overdrawn

\* C26: a loop whose visual-update call for a frame fails goes on to the
\* next frame like a loop whose call succeeded: it does not end.
C26_FailedFrameGoesOn ==
    [][ \A l \in LoopIds :
          (loops[l].pc = "after" /\ loops'[l].pc # "after") =>
              loops'[l].pc = "sleep" ]_vars

(***************************************************************************)
(* Claims about whole messages and the simulated device                    *)
(***************************************************************************)
\* the whole message of a send
Message(op, data) ==
    IF op = "frame" THEN <<FrameStart>> \o data \o <<FrameEnd>>
    ELSE <<AnimStart, Len(data)>> \o Flatten(data) \o <<AnimEnd>>

\* C33: a send that has written its start marker has, when the call is
\* over, written the complete payload and the matching end marker, also
\* when a payload value is outside 0..255 or a write fails part-way.
C33_NoPartialMessage ==
    \A t \in Senders :
        (senders[t].pc = "done" /\ senders[t].written # <<>>) =>
            senders[t].written = Message(senders[t].op, senders[t].data)

\* the simulated devices: MockSerial of mock_serial.py, of serial_utils.py
\* and of led_matrix_control.py
MockDevices ==
    IF revision = "refactored" THEN {"mock_serial", "serial_utils"}
    ELSE {"led_matrix_control"}

\* valid patterns handed to send_frame
MockPatterns == {simple_pattern, PatRamp, PatMarkers}

\* mock_serial.MockSerial._simulate_ack: the line for the data of one write
simulate_ack(data) ==
    IF data[1] = FrameStart /\ data[Len(data)] = FrameEnd THEN "Pattern received."
    ELSE IF data[1] = AnimStart /\ data[Len(data)] = AnimEnd THEN "Animation received."
    ELSE "Unknown command received."

\* the data of write number k (0..9) of send_frame: one byte
MockData(k) == <<Message("frame", mock.pattern)[k + 1]>>

\* the write starts a thread or a timer on the device
StartsThread(device, data) ==
    IF device = "mock_serial" THEN TRUE
    ELSE IF device = "serial_utils" THEN data[1] \in {FrameStart, AnimStart}
    ELSE (data[1] = FrameStart /\ Len(data) = 10) \/ data[1] = AnimStart

\* send_frame(ser, pattern) / send_single_frame(ser, pattern) on a MockSerial
MockSendCall ==
    /\ mock.pc = "idle"
    /\ \E device \in MockDevices : \E p \in MockPatterns :
         mock' = [mock EXCEPT !.device = device, !.pattern = p, !.pc = "write", !.i = 0]
    /\ UNCHANGED <<revision, playVars, linkVars, aiVars, appVars, ctl>>

\* ser.write(bytes([...])): MockSerial.write
MockWrite ==
    /\ mock.pc = "write"
    /\ mock' = [mock EXCEPT
                  !.i = @ + 1,
                  !.acks = IF StartsThread(mock.device, MockData(mock.i))
                           THEN @ \cup {mock.i} ELSE @,
                  !.pc = IF mock.i < Len(mock.pattern) + 1 THEN "write"
                         ELSE IF revision = "monolith" THEN "wait" ELSE "done"]
    /\ UNCHANGED <<revision, playVars, linkVars, aiVars, appVars, ctl>>

\* send_single_frame: the acknowledgment wait; in_waiting of this MockSerial
\* is 0, readline is not called
MockWait ==
    /\ mock.pc = "wait"
    /\ mock' = [mock EXCEPT !.pc = "done"]
    /\ UNCHANGED <<revision, playVars, linkVars, aiVars, appVars, ctl>>

\* the thread of write k ends its delay: _simulate_ack(data) appends a line
\* to in_buffer; mock_ack of the other two devices only prints
MockAck(k) ==
    /\ k \in mock.acks
    /\ mock' = IF mock.device = "mock_serial"
               THEN [mock EXCEPT
                       !.acks = @ \ {k},
                       !.in_buffer = Append(@, simulate_ack(MockData(k))),
                       !.queued = @ \cup {simulate_ack(MockData(k))}]
               ELSE [mock EXCEPT !.acks = @ \ {k}]
    /\ UNCHANGED <<revision, playVars, linkVars, aiVars, appVars, ctl>>

\* what readline() returns now
readline ==
    IF mock.device = "mock_serial"
    THEN (IF mock.in_buffer # <<>> THEN Head(mock.in_buffer) ELSE "")
    ELSE "Pattern received."

\* ser.readline()
MockReadline ==
    /\ mock.pc = "done"
    /\ mock' = [mock EXCEPT
                  !.got = @ \cup {readline},
                  !.in_buffer = IF mock.device = "mock_serial" /\ @ # <<>>
                                THEN Tail(@) ELSE @]
    /\ UNCHANGED <<revision, playVars, linkVars, aiVars, appVars, ctl>>

NextMock ==
    \/ MockSendCall
    \/ MockWrite
    \/ MockWait
    \/ \E k \in 0..9 : MockAck(k)
    \/ MockReadline

SpecMock == Init /\ [][NextMock]_vars

\* the lines readline can still return, or has returned
Readable ==
    IF mock.device = "mock_serial"
    THEN {mock.in_buffer[k] : k \in 1..Len(mock.in_buffer)} \cup mock.got
    ELSE {"Pattern received."}

\* C34: when send_frame has transmitted a valid pattern and the device has
\* finished its delays, the line "Pattern received." is available to
\* readline; the device never queues "Unknown command received." for it.
C34_PatternAcknowledged ==
    /\ "Unknown command received." \notin mock.queued
    /\ (mock.pc = "done" /\ mock.acks = {}) => "Pattern received." \in Readable

(***************************************************************************)
(* The controller, LEDMatrixApp: its fields, its buttons, the handlers of  *)
(* the Tk main thread (each runs to its end before the next event) and the *)
(* worker threads the handlers start.  A worker thread takes one step per  *)
(* statement that reads or writes a field of the controller.               *)
(***************************************************************************)
\* what optimize_with_ai and the refinement return
CtlPatterns == {simple_pattern, PatRamp}
CtlAnimations == {<<PatRamp>>, <<simple_pattern, PatMarkers>>}

\* what generate_patterns returns
GenPatterns == {simple_pattern}
GenAnimations == {<<simple_pattern, PatMarkers>>}

CtlRest == <<revision, playVars, linkVars, aiVars, appVars, mock>>

\* a list or None used as a condition: `if self.current_pattern`
NonEmpty(x) == x.ok /\ x.val # <<>>

\* AnimationManager.stop(): if self.playing: self.stop_flag.set()
AmStop(c) == [c EXCEPT !.stop_flag = IF c.playing THEN TRUE ELSE @]

\* AnimationManager.start(frames): playing = True; stop_flag.clear()
AmStart(c) == [c EXCEPT !.playing = TRUE, !.stop_flag = FALSE]

disable_all_buttons(c) == [c EXCEPT !.gen_btn = "disabled", !.edit_btn = "disabled"]

after_generation(c) == [c EXCEPT !.edit_btn = "normal"]

enable_buttons(c) ==
    IF revision = "refactored"
    THEN [c EXCEPT !.edit_btn = IF NonEmpty(c.current_pattern) \/ NonEmpty(c.current_animation)
                                THEN "normal" ELSE @,
                   !.gen_btn = "normal"]
    ELSE [c EXCEPT !.gen_btn = IF c.desc THEN "normal" ELSE "disabled"]

toggle_buttons(c) ==
    IF revision = "refactored" /\ c.currently_refining THEN c
    ELSE [c EXCEPT !.gen_btn = IF c.desc THEN "normal" ELSE "disabled"]

\* <KeyRelease> in the description entry, which then holds text or is empty
KeyRelease(text) ==
    /\ ctl' = toggle_buttons([ctl EXCEPT !.desc = text])
    /\ UNCHANGED CtlRest

FreeWorkers == {w \in WorkerIds : ctl.workers[w].kind = "none"}

FirstFree == CHOOSE w \in FreeWorkers : TRUE

\* threading.Thread(target=..., daemon=True).start()
StartWorker(c, w, kind, pc, animation) ==
    [c EXCEPT !.workers[w] = [NoWorker EXCEPT !.kind = kind, !.pc = pc,
                                              !.animation = animation],
              !.started = TRUE]

\* gen_single / gen_animation
gen_single(animation) ==
    IF revision = "refactored" /\ ctl.currently_refining THEN UNCHANGED ctl
    ELSE IF ~ctl.desc THEN UNCHANGED ctl
    ELSE /\ FreeWorkers # {}
         /\ ctl' = StartWorker(disable_all_buttons(ctl), FirstFree,
                               "generate", "call", animation)

\* a click on Generate Single / Generate Anim; a disabled button ignores it
GenClick(animation) ==
    /\ ctl.gen_btn = "normal"
    /\ gen_single(animation)
    /\ UNCHANGED CtlRest

\* led_matrix_control.py: <Control-g>, <Control-a>
GenShortcut(animation) ==
    /\ revision = "monolith"
    /\ gen_single(animation)
    /\ UNCHANGED CtlRest

\* a click on Optimize: optimize_current
OptimizeClick ==
    /\ ctl.edit_btn = "normal"
    /\ IF ~NonEmpty(ctl.current_pattern) /\ ~NonEmpty(ctl.current_animation)
       THEN UNCHANGED ctl
       ELSE IF revision = "refactored" /\ ctl.currently_refining THEN UNCHANGED ctl
       ELSE /\ FreeWorkers # {}
            /\ ctl' = StartWorker(disable_all_buttons(ctl), FirstFree,
                                  "optimize", "test", FALSE)
    /\ UNCHANGED CtlRest

\* generate_single_pattern / generate_animation_patterns: generate_patterns returns
GenCall(w) ==
    /\ ctl.workers[w].kind = "generate"
    /\ ctl.workers[w].pc = "call"
    /\ \E v \in (IF ctl.workers[w].animation THEN GenAnimations ELSE GenPatterns) :
         ctl' = [ctl EXCEPT !.workers[w].op = Some(v), !.workers[w].pc = "set1"]
    /\ UNCHANGED CtlRest

\* ui.py: except FileNotFoundError: self.log(...); self.enable_buttons(); return
GenCallRaises(w) ==
    /\ revision = "refactored"
    /\ ctl.workers[w].kind = "generate"
    /\ ctl.workers[w].pc = "call"
    /\ ctl' = enable_buttons([ctl EXCEPT !.workers[w] = NoWorker])
    /\ UNCHANGED CtlRest

\* the first assignment after generate_patterns:
\*   self.current_pattern = pat.copy()
\*   self.current_animation = [f.copy() for f in frames] if frames else None
GenSetFirst(w) ==
    /\ ctl.workers[w].kind = "generate"
    /\ ctl.workers[w].pc = "set1"
    /\ LET v == ctl.workers[w].op.val
       IN ctl' = IF ctl.workers[w].animation
                 THEN [ctl EXCEPT !.current_animation = IF v # <<>> THEN Some(v) ELSE None,
                                  !.workers[w].pc = "set2"]
                 ELSE [ctl EXCEPT !.current_pattern = Some(v), !.workers[w].pc = "set2"]
    /\ UNCHANGED CtlRest

\* the other assignments, then the preview and the send:
\*   self.current_animation = None         self.current_pattern = None
\*   self.is_animation = False             self.is_animation = bool(frames)
\*   self.current_file = None; self.refinement_iterations = 0
\*   self.update_leds(pat); send_frame     anim_manager.stop(); anim_manager.start(frames); send_animation
GenSetRest(w) ==
    /\ ctl.workers[w].kind = "generate"
    /\ ctl.workers[w].pc = "set2"
    /\ LET k == ctl.workers[w]
           c1 == IF k.animation /\ k.op.val # <<>> THEN AmStart(AmStop(ctl)) ELSE ctl
       IN ctl' = [c1 EXCEPT
                    !.current_pattern = IF k.animation THEN None ELSE @,
                    !.current_animation = IF k.animation THEN @ ELSE None,
                    !.is_animation = (k.animation /\ k.op.val # <<>>),
                    !.current_file = "None",
                    !.refinement_iterations = IF revision = "refactored" THEN 0 ELSE @,
                    !.workers[w].pc = IF revision = "refactored" THEN "evaluate"
                                      ELSE "finish"]
    /\ UNCHANGED CtlRest

\* the refinement threads started so far
Rounds == Cardinality({r \in RefinerIds : ctl.refiners[r].pc # "none"})

\* refine_pattern / refine_animation
refine(c, animation) ==
    IF c.refinement_iterations >= max_refinement_iterations THEN c
    ELSE [disable_all_buttons(c) EXCEPT
            !.currently_refining = TRUE,
            !.animation = animation,
            !.refiners[Rounds + 1] = [NoRefiner EXCEPT !.pc = "call"]]

\* evaluate_pattern / evaluate_animation; low says that the evaluation has
\* a score below 9:
\*   if sc<9 and self.refinement_iterations<self.max_refinement_iterations: self.refine_pattern(...)
evaluate(c, low, animation) ==
    IF low /\ c.refinement_iterations < max_refinement_iterations
    THEN refine(c, animation) ELSE c

\* ui.py: self.evaluate_pattern(desc, pat); self.after_generation()
GenEvaluate(w, low) ==
    /\ revision = "refactored"
    /\ ctl.workers[w].kind = "generate"
    /\ ctl.workers[w].pc = "evaluate"
    /\ low => Rounds < MaxRounds
    /\ ctl' = [after_generation(evaluate(ctl, low, ctl.workers[w].animation))
                 EXCEPT !.workers[w].pc = "finish"]
    /\ UNCHANGED CtlRest

\* self.enable_buttons(), and the thread ends; led_matrix_control.py sets
\* the publish, edit and optimize buttons to normal before it
GenFinish(w) ==
    /\ ctl.workers[w].kind = "generate"
    /\ ctl.workers[w].pc = "finish"
    /\ ctl' = enable_buttons([(IF revision = "monolith" THEN after_generation(ctl) ELSE ctl)
                                EXCEPT !.workers[w] = NoWorker])
    /\ UNCHANGED CtlRest

\* perform_optimization: if self.is_animation and self.current_animation: ...
\* elif self.current_pattern: ...
OptTest(w) ==
    /\ ctl.workers[w].kind = "optimize"
    /\ ctl.workers[w].pc = "test"
    /\ ctl' = IF ctl.is_animation /\ NonEmpty(ctl.current_animation)
              THEN [ctl EXCEPT !.workers[w].animation = TRUE,
                               !.workers[w].pc = "call"]
              ELSE IF NonEmpty(ctl.current_pattern)
              THEN [ctl EXCEPT !.workers[w].animation = FALSE,
                               !.workers[w].pc = "call"]
              ELSE [ctl EXCEPT !.workers[w].pc = "finally"]
    /\ UNCHANGED CtlRest

\* op = optimize_with_ai(...) returns
OptCall(w) ==
    /\ ctl.workers[w].kind = "optimize"
    /\ ctl.workers[w].pc = "call"
    /\ \E v \in (IF ctl.workers[w].animation THEN CtlAnimations ELSE CtlPatterns) :
         ctl' = [ctl EXCEPT !.workers[w].op = Some(v), !.workers[w].pc = "compare"]
    /\ UNCHANGED CtlRest

\* optimize_with_ai raises: except Exception: self.log("Optimization failed")
OptCallRaises(w) ==
    /\ ctl.workers[w].kind = "optimize"
    /\ ctl.workers[w].pc = "call"
    /\ ctl' = [ctl EXCEPT !.workers[w].pc = "finally"]
    /\ UNCHANGED CtlRest

\* if op != self.current_animation: self.current_animation = op; send_animation(...)
\* if op != self.current_pattern: self.current_pattern = op; send_frame(...)
OptAssign(w) ==
    /\ ctl.workers[w].kind = "optimize"
    /\ ctl.workers[w].pc = "compare"
    /\ LET k == ctl.workers[w]
       IN ctl' =
            IF k.animation
            THEN [ctl EXCEPT !.current_animation = IF k.op # @ THEN k.op ELSE @,
                             !.workers[w].pc = "finally"]
            ELSE [ctl EXCEPT !.current_pattern = IF k.op # @ THEN k.op ELSE @,
                             !.workers[w].pc = "finally"]
    /\ UNCHANGED CtlRest

\* finally: self.after_generation(); self.enable_buttons()
OptFinally(w) ==
    /\ ctl.workers[w].kind = "optimize"
    /\ ctl.workers[w].pc = "finally"
    /\ ctl' = enable_buttons(after_generation([ctl EXCEPT !.workers[w] = NoWorker]))
    /\ UNCHANGED CtlRest

\* refine_pattern_thread: the refinement call and parse_response;
\* refine_animation_thread: generate_patterns, self.current_animation = ...,
\* anim_manager.stop(); anim_manager.start(frames).  ok says that a pattern
\* came back; it is shown and sent.
RefCall(r, ok) ==
    /\ revision = "refactored"
    /\ ctl.refiners[r].pc = "call"
    /\ IF ~ok
       THEN ctl' = [ctl EXCEPT !.refiners[r].pc = "finally"]
       ELSE IF ctl.animation
       THEN \E v \in CtlAnimations :
              ctl' = [AmStart(AmStop(ctl)) EXCEPT !.current_animation = Some(v),
                                                 !.refiners[r].pc = "evaluate"]
       ELSE ctl' = [ctl EXCEPT !.refiners[r].pc = "evaluate"]
    /\ UNCHANGED CtlRest

\* self.evaluate_pattern(self.desc_entry.get().strip(), arr), before the
\* counter is incremented
RefEvaluate(r, low) ==
    /\ revision = "refactored"
    /\ ctl.refiners[r].pc = "evaluate"
    /\ low => Rounds < MaxRounds
    /\ ctl' = [evaluate(ctl, low, ctl.animation) EXCEPT !.refiners[r].pc = "incr"]
    /\ UNCHANGED CtlRest

\* self.refinement_iterations+=1: the read
RefIncrRead(r) ==
    /\ revision = "refactored"
    /\ ctl.refiners[r].pc = "incr"
    /\ ctl' = [ctl EXCEPT !.refiners[r].read = ctl.refinement_iterations,
                          !.refiners[r].pc = "store"]
    /\ UNCHANGED CtlRest

\* self.refinement_iterations+=1: the write
RefIncrStore(r) ==
    /\ revision = "refactored"
    /\ ctl.refiners[r].pc = "store"
    /\ ctl' = [ctl EXCEPT !.refinement_iterations = ctl.refiners[r].read + 1,
                          !.refiners[r].pc = "finally"]
    /\ UNCHANGED CtlRest

\* finally: self.currently_refining=False; self.enable_buttons()
RefFinally(r) ==
    /\ revision = "refactored"
    /\ ctl.refiners[r].pc = "finally"
    /\ ctl' = enable_buttons([ctl EXCEPT !.currently_refining = FALSE,
                                         !.refiners[r].pc = "done"])
    /\ UNCHANGED CtlRest

\* saved files: a single pattern, an animation, a single pattern without
\* the key 'pattern', a file that cannot be read
File(name, readable, type, key, value) ==
    [name |-> name, readable |-> readable, type |-> type, key |-> key, value |-> value]

CtlFiles ==
    { File("p.json", TRUE, "single", TRUE, PatRamp),
      File("a.json", TRUE, "animation", TRUE, <<PatRamp>>),
      File("nokey.json", TRUE, "single", FALSE, <<>>),
      File("bad.json", FALSE, "single", FALSE, <<>>) }

\* update_leds(pattern) raises IndexError: a row with more than 8 binary digits
UpdateLedsRaises(pattern) == \E k \in 1..Len(pattern) : Len(Bits(pattern[k])) > 8

\* playback is running
Running(c) == c.playing /\ ~c.stop_flag

\* the fields a load assigns
Fields(c) == <<c.current_pattern, c.current_animation, c.is_animation, c.current_file>>

\* load_selection(t, listbox, window) with file f selected: the controller
\* after it, and whether it failed (logged the mismatch or the exception)
Loaded(t, f) ==
    IF ~f.readable \/ f.type # t THEN [c |-> ctl, failed |-> TRUE]
    ELSE IF ~f.key THEN [c |-> AmStop(ctl), failed |-> TRUE]
    ELSE IF t = "single"
    THEN LET c3 == [AmStop(ctl) EXCEPT
                      !.current_pattern = Some(f.value),
                      !.current_animation = None,
                      !.is_animation = FALSE,
                      !.current_file = IF revision = "monolith" THEN f.name ELSE @]
         IN IF UpdateLedsRaises(f.value) THEN [c |-> c3, failed |-> TRUE]
            ELSE [c |-> [after_generation(c3) EXCEPT
                           !.current_file = f.name,
                           !.refinement_iterations =
                               IF revision = "refactored" THEN 0 ELSE @],
                  failed |-> FALSE]
    ELSE [c |-> [after_generation(AmStart(AmStop(ctl))) EXCEPT
                   !.current_animation = Some(f.value),
                   !.current_pattern = None,
                   !.is_animation = TRUE,
                   !.current_file = f.name,
                   !.refinement_iterations = IF revision = "refactored" THEN 0 ELSE @],
          failed |-> FALSE]

\* <<ListboxSelect>> in the list of type t: load_selection
LoadSelection(t, f) ==
    /\ LET l == Loaded(t, f)
       IN ctl' = [l.c EXCEPT !.loadBroke =
                     @ \/ (l.failed /\ (Fields(l.c) # Fields(ctl)
                                          \/ (Running(ctl) /\ ~Running(l.c))))]
    /\ UNCHANGED CtlRest

\* the user and the workers, with evaluations that ask for no refinement
NextCtl ==
    \/ \E text \in BOOLEAN : KeyRelease(text)
    \/ \E animation \in BOOLEAN : GenClick(animation)
    \/ \E animation \in BOOLEAN : GenShortcut(animation)
    \/ OptimizeClick
    \/ \E t \in {"single", "animation"} : \E f \in CtlFiles : LoadSelection(t, f)
    \/ \E w \in WorkerIds : GenCall(w)
    \/ \E w \in WorkerIds : GenCallRaises(w)
    \/ \E w \in WorkerIds : GenSetFirst(w)
    \/ \E w \in WorkerIds : GenSetRest(w)
    \/ \E w \in WorkerIds : GenEvaluate(w, FALSE)
    \/ \E w \in WorkerIds : GenFinish(w)
    \/ \E w \in WorkerIds : OptTest(w)
    \/ \E w \in WorkerIds : OptCall(w)
    \/ \E w \in WorkerIds : OptCallRaises(w)
    \/ \E w \in WorkerIds : OptAssign(w)
    \/ \E w \in WorkerIds : OptFinally(w)

SpecCtl == Init /\ [][NextCtl]_vars

\* one generation and the refinement rounds that follow it
NextRefine ==
    \/ ~ctl.started /\ \E text \in BOOLEAN : KeyRelease(text)
    \/ ~ctl.started /\ \E animation \in BOOLEAN : GenClick(animation)
    \/ \E w \in WorkerIds : GenCall(w)
    \/ \E w \in WorkerIds : GenSetFirst(w)
    \/ \E w \in WorkerIds : GenSetRest(w)
    \/ \E w \in WorkerIds : \E low \in BOOLEAN : GenEvaluate(w, low)
    \/ \E w \in WorkerIds : GenFinish(w)
    \/ \E r \in RefinerIds : \E ok \in BOOLEAN : RefCall(r, ok)
    \/ \E r \in RefinerIds : \E low \in BOOLEAN : RefEvaluate(r, low)
    \/ \E r \in RefinerIds : RefIncrRead(r)
    \/ \E r \in RefinerIds : RefIncrStore(r)
    \/ \E r \in RefinerIds : RefFinally(r)

SpecRefine == Init /\ [][NextRefine]_vars

(***************************************************************************)
(* Claims about the controller                                             *)
(***************************************************************************)
RefinersRunning == {r \in RefinerIds : ctl.refiners[r].pc \notin {"none", "done"}}

WorkersRunning == {w \in WorkerIds : ctl.workers[w].kind # "none"}

\* C35: for one generated pattern, the number of refinement threads
\* started never exceeds max_refinement_iterations.
C35_RoundsBounded == Rounds <= max_refinement_iterations

\* C36: currently_refining is True in every state in which a refinement
\* thread is running.
C36_RefiningWhileRunning == RefinersRunning # {} => ctl.currently_refining

\* C37: at most one generation, optimization or refinement worker is in
\* flight at any time.
C37_OneWorker == Cardinality(WorkersRunning) + Cardinality(RefinersRunning) <= 1

\* C38: when no operation is in progress, current_pattern and
\* current_animation are not both set, and is_animation is True exactly
\* when current_animation is set.
C38_OneKind ==
    (WorkersRunning = {} /\ RefinersRunning = {}) =>
        /\ ~(ctl.current_pattern.ok /\ ctl.current_animation.ok)
        /\ ctl.is_animation <=> ctl.current_animation.ok

\* C39: a load_selection that fails leaves current_pattern,
\* current_animation, is_animation and current_file as they were, and a
\* running playback running.
C39_FailedLoadNoEffect == ~ctl.loadBroke

====
